---- MODULE Spec2Model ----
(***************************************************************************)
(* State-machine model of the TACL Terraform provider's resources.         *)
(*                                                                         *)
(* One resource instance of one kind is driven through the framework's     *)
(* Create / Read / Update / Delete handlers.  Every handler is one action: *)
(* it takes the stored state and (for Create/Update) a plan, sends at most *)
(* the requests its code sends, receives an outcome of the HTTP call that  *)
(* the remote service (or the transport) is free to choose, and leaves the *)
(* stored state and the diagnostics the framework sees afterwards.         *)
(***************************************************************************)
EXTENDS Integers, Sequences, FiniteSets, TLC

VARIABLES
    kind,    \* which resource type this instance is ("acl", "ssh", ...)
    state,   \* the stored Terraform state of the instance (Absent or a record)
    held,    \* the state data last handed to a Delete that removed the instance
    last,    \* what the last handler invocation did (operation, plan, requests, outcome, diagnostics)
    fresh,   \* the body that answered the Create just before, while nothing but a Read followed it
    data,    \* the data source of this kind: the config its Read was given and the state it set
    peer,    \* the stored state of a second instance of the same resource type
    peerOp,  \* the handler running for the second instance, "none" when none is
    provider,\* the taclProvider: the config it was given and the fields Configure set
    derp     \* a DERPMap on its way from a plan or a response to the typed state

vars == <<kind, state, held, last, fresh, data, peer, peerOp, provider, derp>>

----------------------------------------------------------------------------
(* Bounds of the model *)

\* number of distinct non-empty identifiers the remote service hands out
MaxIds == 2
\* number of distinct non-empty payload values (action/src/dst, members, ip, ...)
MaxVals == 2

IdNames  == <<"id1", "id2", "id3">>
ValNames == <<"v1", "v2", "v3">>

----------------------------------------------------------------------------
(* Values *)

Null    == "<null>"      \* a null / unknown Terraform value
Missing == "<missing>"   \* a key the JSON body does not carry

ACL           == "acl"
SSH           == "ssh"
NodeAttr      == "nodeattr"
Group         == "group"
Host          == "host"
TagOwner      == "tagowner"
Posture       == "posture"
Settings      == "settings"
AutoApprovers == "autoapprovers"
DERPMap       == "derpmap"

IDKinds        == {ACL, SSH, NodeAttr}
NamedKinds     == {Group, Host, TagOwner, Posture}
SingletonKinds == {Settings, AutoApprovers, DERPMap}
Kinds          == IDKinds \cup NamedKinds \cup SingletonKinds

\* non-empty ids / payload values
Ids  == {IdNames[i] : i \in 1..MaxIds}
Vals == {ValNames[i] : i \in 1..MaxVals}

\* names a configuration may give a name-keyed entity
Names == {"default", "n1", "n2"}

\* HTTP status codes the remote service may answer with
StatusCodes == {200, 299, 300, 404, 500}

\* response bodies of a failed call, surfaced verbatim
ErrTexts == {"conflict"}

\* the stored state of an instance that is not in state
Absent == [present |-> FALSE]

\* a stored state record; fields a kind does not have are Null
St(id, name, val, attr, app) ==
    [present |-> TRUE, id |-> id, name |-> name, val |-> val, attr |-> attr, app |-> app]

\* Go's zero value for a field the decoded JSON does not carry ("" / empty list)
Zero == ""

\* a typed struct field after json.Unmarshal: the key's value, or the zero value
Str(x) == IF x = Missing THEN Zero ELSE x

----------------------------------------------------------------------------
(* Requests and responses *)

\* a JSON request payload: the keys it carries (Missing = key not in the body);
\* wrap names the key the entry is nested under ("" = top level)
Payload(id, name, val, attr, app, wrap) ==
    [nil |-> FALSE, id |-> id, name |-> name, val |-> val, attr |-> attr, app |-> app, wrap |-> wrap]

\* payload == nil: the request has no body
NilPayload ==
    [nil |-> TRUE, id |-> Missing, name |-> Missing, val |-> Missing, attr |-> Missing,
     app |-> Missing, wrap |-> ""]

Req(method, url, payload) == [method |-> method, url |-> url, payload |-> payload]

\* a response body: a JSON object with the keys it carries, bytes that do not
\* parse as the expected JSON, a body whose read fails, or the text of a failure
Body(form, id, name, val, attr, app, text) ==
    [form |-> form, id |-> id, name |-> name, val |-> val, attr |-> attr, app |-> app, text |-> text]

ObjBody(id, name, val, attr, app) == Body("object", id, name, val, attr, app, "")
MalformedBody  == Body("malformed", Missing, Missing, Missing, Missing, Missing, "")
UnreadableBody == Body("unreadable", Missing, Missing, Missing, Missing, Missing, "")
TextBody(t)    == Body("text", Missing, Missing, Missing, Missing, Missing, t)
NoBody         == Body("none", Missing, Missing, Missing, Missing, Missing, "")

\* the app object of a nodeattr grant, as decoded into map[string]interface{}
NilMap   == "nil"       \* key absent or JSON null
EmptyMap == "map[]"     \* {}
AppMap   == "map[k:1]"  \* {"k":1}

Star == "*"

\* the JSON objects the remote service may answer with, per resource type
ObjBodies(k) ==
    CASE k \in {ACL, SSH} ->
           {ObjBody(id, Missing, val, Missing, Missing) :
                id \in Ids \cup {Missing}, val \in Vals \cup {Missing}}
      [] k = NodeAttr ->
           {ObjBody(id, Missing, val, attr, app) :
                id \in Ids \cup {Missing}, val \in {Missing, Star} \cup Vals,
                attr \in {Missing, "a1"}, app \in {NilMap, EmptyMap, AppMap}}
      [] k \in NamedKinds ->
           {ObjBody(Missing, name, val, Missing, Missing) :
                name \in {Missing, "n1", "n2"}, val \in Vals \cup {Missing}}
      [] OTHER ->
           {ObjBody(Missing, Missing, val, Missing, Missing) : val \in Vals \cup {Missing}}

\* what one HTTP call may end in: no response at all (connection error, context
\* cancelled), or a response with a status and a body
NetErr     == [t |-> "neterr", status |-> 0, body |-> NoBody]
Http(s, b) == [t |-> "http", status |-> s, body |-> b]
NoOutcome  == [t |-> "none", status |-> 0, body |-> NoBody]

Outcomes(k) ==
    {NetErr}
      \cup {Http(s, b) : s \in {c \in StatusCodes : c < 300},
                         b \in ObjBodies(k) \cup {MalformedBody, UnreadableBody}}
      \cup {Http(s, TextBody(t)) : s \in {c \in StatusCodes : c >= 300}, t \in ErrTexts}

----------------------------------------------------------------------------
(* Errors and diagnostics *)

\* a Go error value: its dynamic type, its message, and for "returned %d: %s"
\* the status code and body text formatted into it
Err(type, msg, status, text) == [type |-> type, msg |-> msg, status |-> status, text |-> text]
NoErr == Err("nil", "", 0, "")

NotFoundError(msg) == Err("*NotFoundError", msg, 0, "")
Errorf(msg, status, text) == Err("*fmt.wrapError", msg, status, text)

\* faulty variant: no error is ever recognised as not-found
isNotFoundNever(err) == FALSE
\* isNotFound / IsNotFound: err.(*NotFoundError)
isNotFound(err) == err.type = "*NotFoundError"

\* resp.Diagnostics.AddError(summary, err.Error())
Diag(summary, err) == [severity |-> "error", summary |-> summary, detail |-> err]

\* json.Unmarshal failed on the response bytes
ParseErr == Err("*json.SyntaxError", "unmarshal", 0, "")

\* what a handler leaves behind: resp.State, resp.Diagnostics, the requests it sent
Result(st, diags, sent) == [state |-> st, diags |-> diags, sent |-> sent]

HasError(diags) == \E i \in 1..Len(diags) : diags[i].severity = "error"

----------------------------------------------------------------------------
(* The request helpers *)

\* faulty variant: 404 is not singled out and falls under status >= 300
doRequestStatus404AsFailure(notFound, o) ==
    IF o.t = "neterr" THEN [body |-> NoBody, err |-> Errorf("request error", 0, ""), open |-> FALSE]
    ELSE IF o.status >= 300 THEN
        [body |-> NoBody, err |-> Errorf("TACL returned", o.status, o.body.text), open |-> FALSE]
    ELSE IF o.body.form = "unreadable" THEN
        [body |-> NoBody, err |-> Errorf("read error", 0, ""), open |-> FALSE]
    ELSE [body |-> o.body, err |-> NoErr, open |-> FALSE]

\* faulty variant: a failed client.Do is reported as not-found
doRequestNetErrAsNotFound(notFound, o) ==
    IF o.t = "neterr" THEN [body |-> NoBody, err |-> NotFoundError(notFound), open |-> FALSE]
    ELSE IF o.status = 404 THEN [body |-> NoBody, err |-> NotFoundError(notFound), open |-> FALSE]
    ELSE IF o.status >= 300 THEN
        [body |-> NoBody, err |-> Errorf("TACL returned", o.status, o.body.text), open |-> FALSE]
    ELSE IF o.body.form = "unreadable" THEN
        [body |-> NoBody, err |-> Errorf("read error", 0, ""), open |-> FALSE]
    ELSE [body |-> o.body, err |-> NoErr, open |-> FALSE]

\* faulty variant: every status >= 300 is reported as not-found
doRequestFailureAsNotFound(notFound, o) ==
    IF o.t = "neterr" THEN [body |-> NoBody, err |-> Errorf("request error", 0, ""), open |-> FALSE]
    ELSE IF o.status >= 300 THEN [body |-> NoBody, err |-> NotFoundError(notFound), open |-> FALSE]
    ELSE IF o.body.form = "unreadable" THEN
        [body |-> NoBody, err |-> Errorf("read error", 0, ""), open |-> FALSE]
    ELSE [body |-> o.body, err |-> NoErr, open |-> FALSE]

\* faulty variant: the body is closed after io.ReadAll on the success path
\* only; the returns for 404 and for status >= 300 leave it open
doRequestCloseOnSuccess(notFound, o) ==
    IF o.t = "neterr" THEN
        [body |-> NoBody, err |-> Errorf("request error", 0, ""), open |-> FALSE]
    ELSE IF o.status = 404 THEN
        [body |-> NoBody, err |-> NotFoundError(notFound), open |-> TRUE]
    ELSE IF o.status >= 300 THEN
        [body |-> NoBody, err |-> Errorf("TACL returned", o.status, o.body.text), open |-> TRUE]
    ELSE IF o.body.form = "unreadable" THEN
        [body |-> NoBody, err |-> Errorf("read error", 0, ""), open |-> FALSE]
    ELSE [body |-> o.body, err |-> NoErr, open |-> FALSE]

\* A helper returns the bytes read, the error, and whether the body of the
\* response it obtained is still open: every helper has
\* "defer resp.Body.Close()" right after a successful client.Do, so the body is
\* closed on each return that follows, and when client.Do fails there is no
\* response to hold.
\* The shape shared by doACLIDRequest, doSSHIDRequest, doNodeAttrRequest, doRequest,
\* doHostsRequest, doTagOwnersRequest, doPostureRequest, doSettingsRequest and
\* doSingleObjectReq: client.Do fails -> wrapped error; 404 -> *NotFoundError;
\* status >= 300 -> "returned %d: %s" with the body read; else io.ReadAll(body)
doRequest(notFound, o) ==
    IF o.t = "neterr" THEN [body |-> NoBody, err |-> Errorf("request error", 0, ""), open |-> FALSE]
    ELSE IF o.status = 404 THEN [body |-> NoBody, err |-> NotFoundError(notFound), open |-> FALSE]
    ELSE IF o.status >= 300 THEN
        [body |-> NoBody, err |-> Errorf("TACL returned", o.status, o.body.text), open |-> FALSE]
    ELSE IF o.body.form = "unreadable" THEN
        [body |-> NoBody, err |-> Errorf("read error", 0, ""), open |-> FALSE]
    ELSE [body |-> o.body, err |-> NoErr, open |-> FALSE]

doACLIDRequest(o)     == doRequest("ACL not found", o)
doSSHIDRequest(o)     == doRequest("SSH rule not found", o)
doNodeAttrRequest(o)  == doRequest("nodeattr not found", o)
doGroupRequest(o)     == doRequest("group not found", o)
doHostsRequest(o)     == doRequest("host not found", o)
doTagOwnersRequest(o) == doRequest("TagOwner not found", o)
doPostureRequest(o)   == doRequest("posture not found", o)
doSettingsRequest(o)  == doRequest("Settings not found", o)
doSingleObjectReq(o)  == doRequest("object not found", o)

\* doDERPMapRequest: 404 -> fmt.Errorf("NotFound"), a plain error; a 2xx body is
\* decoded inside the helper
doDERPMapRequest(o) ==
    IF o.t = "neterr" THEN [body |-> NoBody, err |-> Errorf("DERPMap request error", 0, ""), open |-> FALSE]
    ELSE IF o.status = 404 THEN [body |-> NoBody, err |-> Errorf("NotFound", 0, ""), open |-> FALSE]
    ELSE IF o.status >= 300 THEN
        [body |-> NoBody, err |-> Errorf("DERPMap returned", o.status, o.body.text), open |-> FALSE]
    ELSE IF o.body.form # "object" THEN
        [body |-> NoBody, err |-> Errorf("decode DERPMap", 0, ""), open |-> FALSE]
    ELSE [body |-> o.body, err |-> NoErr, open |-> FALSE]


----------------------------------------------------------------------------
(* Plans *)

\* a plan (the configured values the framework hands to Create / Update);
\* fields a kind does not have are Null
Plan(name, val, attr, app) == [name |-> name, val |-> val, attr |-> attr, app |-> app]
NoPlan == Plan(Null, Null, Null, Null)

\* texts a configuration may give for nodeattr's app_json
AppObjText    == "{\"k\":1}"
AppSpacedText == "{ \"k\": 1 }"
AppJSONTexts  == {Null, "", AppObjText, AppSpacedText, "{}", "null", "[1]", "{bad"}

Plans(k) ==
    CASE k = NodeAttr ->
           {Plan(Null, val, attr, app) :
                val \in {Null} \cup Vals, attr \in {Zero, "a1"}, app \in AppJSONTexts}
      [] k \in NamedKinds -> {Plan(name, val, Null, Null) : name \in Names, val \in Vals}
      [] OTHER -> {Plan(Null, val, Null, Null) : val \in Vals}

----------------------------------------------------------------------------
(* ACL: /acls, keyed by a server-assigned id *)

\* faulty variant: the planned values are stored, only the id is taken from the response
aclCreateStoresPlan(plan, o) ==
    LET req == Req("POST", "/acls", Payload(Missing, Missing, plan.val, Missing, Missing, ""))
        r   == doACLIDRequest(o)
    IN  IF r.err # NoErr THEN Result(Absent, <<Diag("Create ACL error", r.err)>>, <<req>>)
        ELSE IF r.body.form # "object" THEN
            Result(Absent, <<Diag("Parse create response error", ParseErr)>>, <<req>>)
        ELSE Result(St(Str(r.body.id), Null, plan.val, Null, Null), <<>>, <<req>>)

aclCreate(plan, o) ==
    LET req == Req("POST", "/acls", Payload(Missing, Missing, plan.val, Missing, Missing, ""))
        r   == doACLIDRequest(o)
    IN  IF r.err # NoErr THEN Result(Absent, <<Diag("Create ACL error", r.err)>>, <<req>>)
        ELSE IF r.body.form # "object" THEN
            Result(Absent, <<Diag("Parse create response error", ParseErr)>>, <<req>>)
        ELSE Result(St(Str(r.body.id), Null, Str(r.body.val), Null, Null), <<>>, <<req>>)

aclRead(cur, o) ==
    IF cur.id = "" THEN Result(Absent, <<>>, <<>>)
    ELSE
    LET req == Req("GET", "/acls/" \o cur.id, NilPayload)
        r   == doACLIDRequest(o)
    IN  IF r.err # NoErr THEN
            IF isNotFound(r.err) THEN Result(Absent, <<>>, <<req>>)
            ELSE Result(cur, <<Diag("Read ACL error", r.err)>>, <<req>>)
        ELSE IF r.body.form # "object" THEN
            Result(cur, <<Diag("Parse read response error", ParseErr)>>, <<req>>)
        ELSE Result(St(Str(r.body.id), Null, Str(r.body.val), Null, Null), <<>>, <<req>>)

\* faulty variant: an empty stored id is sent to the service like any other
aclUpdateSendsEmptyID(cur, plan, o) ==
    LET req == Req("PUT", "/acls", Payload(cur.id, Missing, plan.val, Missing, Missing, "entry"))
        r   == doACLIDRequest(o)
    IN  IF r.err # NoErr THEN
            IF isNotFound(r.err) THEN Result(Absent, <<>>, <<req>>)
            ELSE Result(cur, <<Diag("Update ACL error", r.err)>>, <<req>>)
        ELSE IF r.body.form # "object" THEN
            Result(cur, <<Diag("Parse update response error", ParseErr)>>, <<req>>)
        ELSE Result(St(Str(r.body.id), Null, Str(r.body.val), Null, Null), <<>>, <<req>>)

aclUpdate(cur, plan, o) ==
    IF cur.id = "" THEN Result(Absent, <<>>, <<>>)
    ELSE
    LET req == Req("PUT", "/acls", Payload(cur.id, Missing, plan.val, Missing, Missing, "entry"))
        r   == doACLIDRequest(o)
    IN  IF r.err # NoErr THEN
            IF isNotFound(r.err) THEN Result(Absent, <<>>, <<req>>)
            ELSE Result(cur, <<Diag("Update ACL error", r.err)>>, <<req>>)
        ELSE IF r.body.form # "object" THEN
            Result(cur, <<Diag("Parse update response error", ParseErr)>>, <<req>>)
        ELSE Result(St(Str(r.body.id), Null, Str(r.body.val), Null, Null), <<>>, <<req>>)

\* faulty variant: a not-found answer to DELETE is reported as a failure
aclDeleteNotFoundIsError(cur, o) ==
    IF cur.id = "" THEN Result(Absent, <<>>, <<>>)
    ELSE
    LET req == Req("DELETE", "/acls", Payload(cur.id, Missing, Missing, Missing, Missing, ""))
        r   == doACLIDRequest(o)
    IN  IF r.err # NoErr THEN Result(cur, <<Diag("Delete ACL error", r.err)>>, <<req>>)
        ELSE Result(Absent, <<>>, <<req>>)

aclDelete(cur, o) ==
    IF cur.id = "" THEN Result(Absent, <<>>, <<>>)
    ELSE
    LET req == Req("DELETE", "/acls", Payload(cur.id, Missing, Missing, Missing, Missing, ""))
        r   == doACLIDRequest(o)
    IN  IF r.err # NoErr /\ ~isNotFound(r.err) THEN
            Result(cur, <<Diag("Delete ACL error", r.err)>>, <<req>>)
        ELSE Result(Absent, <<>>, <<req>>)

----------------------------------------------------------------------------
(* SSH: /ssh, keyed by a server-assigned id *)

\* faulty variant: Create handles not-found the way Read and Update do
sshCreateNotFoundSilent(plan, o) ==
    LET req == Req("POST", "/ssh", Payload(Missing, Missing, plan.val, Missing, Missing, ""))
        r   == doSSHIDRequest(o)
    IN  IF r.err # NoErr THEN
            IF isNotFound(r.err) THEN Result(Absent, <<>>, <<req>>)
            ELSE Result(Absent, <<Diag("Create SSH error", r.err)>>, <<req>>)
        ELSE IF r.body.form # "object" THEN
            Result(Absent, <<Diag("Parse create response error", ParseErr)>>, <<req>>)
        ELSE Result(St(Str(r.body.id), Null, Str(r.body.val), Null, Null), <<>>, <<req>>)

sshCreate(plan, o) ==
    LET req == Req("POST", "/ssh", Payload(Missing, Missing, plan.val, Missing, Missing, ""))
        r   == doSSHIDRequest(o)
    IN  IF r.err # NoErr THEN Result(Absent, <<Diag("Create SSH error", r.err)>>, <<req>>)
        ELSE IF r.body.form # "object" THEN
            Result(Absent, <<Diag("Parse create response error", ParseErr)>>, <<req>>)
        ELSE Result(St(Str(r.body.id), Null, Str(r.body.val), Null, Null), <<>>, <<req>>)

\* faulty variant: a Read that sees a value other than the stored one writes
\* the stored value back to the service
sshReadCorrectingDrift(cur, o) ==
    IF cur.id = "" THEN Result(Absent, <<>>, <<>>)
    ELSE
    LET req == Req("GET", "/ssh/" \o cur.id, NilPayload)
        put == Req("PUT", "/ssh", Payload(cur.id, Missing, cur.val, Missing, Missing, "rule"))
        r   == doSSHIDRequest(o)
    IN  IF r.err # NoErr THEN
            IF isNotFound(r.err) THEN Result(Absent, <<>>, <<req>>)
            ELSE Result(cur, <<Diag("Read SSH error", r.err)>>, <<req>>)
        ELSE IF r.body.form # "object" THEN
            Result(cur, <<Diag("Parse read response error", ParseErr)>>, <<req>>)
        ELSE IF Str(r.body.val) # cur.val THEN Result(cur, <<>>, <<req, put>>)
        ELSE Result(St(Str(r.body.id), Null, Str(r.body.val), Null, Null), <<>>, <<req>>)

sshRead(cur, o) ==
    IF cur.id = "" THEN Result(Absent, <<>>, <<>>)
    ELSE
    LET req == Req("GET", "/ssh/" \o cur.id, NilPayload)
        r   == doSSHIDRequest(o)
    IN  IF r.err # NoErr THEN
            IF isNotFound(r.err) THEN Result(Absent, <<>>, <<req>>)
            ELSE Result(cur, <<Diag("Read SSH error", r.err)>>, <<req>>)
        ELSE IF r.body.form # "object" THEN
            Result(cur, <<Diag("Parse read response error", ParseErr)>>, <<req>>)
        ELSE Result(St(Str(r.body.id), Null, Str(r.body.val), Null, Null), <<>>, <<req>>)

\* faulty variant: the PUT body is built like Create's, without the stored id
sshUpdateWithoutID(cur, plan, o) ==
    IF cur.id = "" THEN Result(Absent, <<>>, <<>>)
    ELSE
    LET req == Req("PUT", "/ssh", Payload(Missing, Missing, plan.val, Missing, Missing, "rule"))
        r   == doSSHIDRequest(o)
    IN  IF r.err # NoErr THEN
            IF isNotFound(r.err) THEN Result(Absent, <<>>, <<req>>)
            ELSE Result(cur, <<Diag("Update SSH error", r.err)>>, <<req>>)
        ELSE IF r.body.form # "object" THEN
            Result(cur, <<Diag("Parse update response error", ParseErr)>>, <<req>>)
        ELSE Result(St(Str(r.body.id), Null, Str(r.body.val), Null, Null), <<>>, <<req>>)

\* faulty variant: the plan is written to state before the request, so a
\* failed Update returns an error together with a changed state
sshUpdateStoresPlanFirst(cur, plan, o) ==
    IF cur.id = "" THEN Result(Absent, <<>>, <<>>)
    ELSE
    LET req == Req("PUT", "/ssh", Payload(cur.id, Missing, plan.val, Missing, Missing, "rule"))
        r   == doSSHIDRequest(o)
        st  == St(cur.id, Null, plan.val, Null, Null)
    IN  IF r.err # NoErr THEN
            IF isNotFound(r.err) THEN Result(Absent, <<>>, <<req>>)
            ELSE Result(st, <<Diag("Update SSH error", r.err)>>, <<req>>)
        ELSE IF r.body.form # "object" THEN
            Result(st, <<Diag("Parse update response error", ParseErr)>>, <<req>>)
        ELSE Result(St(Str(r.body.id), Null, Str(r.body.val), Null, Null), <<>>, <<req>>)

sshUpdate(cur, plan, o) ==
    IF cur.id = "" THEN Result(Absent, <<>>, <<>>)
    ELSE
    LET req == Req("PUT", "/ssh", Payload(cur.id, Missing, plan.val, Missing, Missing, "rule"))
        r   == doSSHIDRequest(o)
    IN  IF r.err # NoErr THEN
            IF isNotFound(r.err) THEN Result(Absent, <<>>, <<req>>)
            ELSE Result(cur, <<Diag("Update SSH error", r.err)>>, <<req>>)
        ELSE IF r.body.form # "object" THEN
            Result(cur, <<Diag("Parse update response error", ParseErr)>>, <<req>>)
        ELSE Result(St(Str(r.body.id), Null, Str(r.body.val), Null, Null), <<>>, <<req>>)

sshDelete(cur, o) ==
    IF cur.id = "" THEN Result(Absent, <<>>, <<>>)
    ELSE
    LET req == Req("DELETE", "/ssh", Payload(cur.id, Missing, Missing, Missing, Missing, ""))
        r   == doSSHIDRequest(o)
    IN  IF r.err # NoErr /\ ~isNotFound(r.err) THEN
            Result(cur, <<Diag("Delete SSH error", r.err)>>, <<req>>)
        ELSE Result(Absent, <<>>, <<req>>)

----------------------------------------------------------------------------
(* NodeAttr: /nodeattrs, keyed by id; attr and app_json are exclusive *)

\* json.Unmarshal([]byte(app_json), &app) with app a map[string]interface{}:
\* an object decodes to a map, JSON null decodes to a nil map without error,
\* any other JSON value and any malformed text is an error
UnmarshalApp(text) ==
    CASE text \in {AppObjText, AppSpacedText} -> [ok |-> TRUE, app |-> AppMap]
      [] text = "{}"   -> [ok |-> TRUE, app |-> EmptyMap]
      [] text = "null" -> [ok |-> TRUE, app |-> NilMap]
      [] OTHER         -> [ok |-> FALSE, app |-> NilMap]

\* json.Marshal of a non-nil map: Go's compact encoding
MarshalApp(app) == IF app = EmptyMap THEN "{}" ELSE AppObjText

\* NodeAttrGrantInput.App has json:"app,omitempty": a nil or empty map is left out
OmitEmptyApp(app) == IF app \in {NilMap, EmptyMap} THEN Missing ELSE app

\* a nil []string encodes as JSON null
TargetJSON(t) == IF t = Null THEN "null" ELSE t

hasAttr(plan) == plan.attr # Zero
hasApp(plan)  == plan.app # Null /\ plan.app # ""

ExactlyOneDiag ==
    Diag("Invalid config", Err("validation", "Exactly one of attr or app_json must be set.", 0, ""))

\* faulty variant: the plan's target is sent for an app grant too
nodeattrInputKeepTarget(plan, id, wrap) ==
    IF hasAttr(plan)
    THEN Payload(id, Missing, TargetJSON(plan.val), plan.attr, Missing, wrap)
    ELSE Payload(id, Missing, TargetJSON(plan.val), Missing,
                 OmitEmptyApp(UnmarshalApp(plan.app).app), wrap)

\* the grant built from the plan once it passed the exactly-one check
nodeattrInput(plan, id, wrap) ==
    IF hasAttr(plan)
    THEN Payload(id, Missing, TargetJSON(plan.val), plan.attr, Missing, wrap)
    ELSE Payload(id, Missing, Star, Missing, OmitEmptyApp(UnmarshalApp(plan.app).app), wrap)

\* faulty variant: attr and app are stored independently of each other
nodeattrStateBoth(body) ==
    St(Str(body.id), Null, Str(body.val),
       IF body.attr # Missing THEN body.attr ELSE Zero,
       IF body.app # NilMap THEN MarshalApp(body.app) ELSE Null)

\* the state written from a NodeAttrResponse
nodeattrState(body) ==
    IF body.attr # Missing THEN St(Str(body.id), Null, Str(body.val), body.attr, Null)
    ELSE IF body.app # NilMap THEN St(Str(body.id), Null, Str(body.val), Zero, MarshalApp(body.app))
    ELSE St(Str(body.id), Null, Str(body.val), Zero, Null)

nodeattrCreate(plan, o) ==
    IF hasAttr(plan) = hasApp(plan) THEN Result(Absent, <<ExactlyOneDiag>>, <<>>)
    ELSE IF ~hasAttr(plan) /\ ~UnmarshalApp(plan.app).ok THEN
        Result(Absent, <<Diag("Invalid app_json", ParseErr)>>, <<>>)
    ELSE
    LET req == Req("POST", "/nodeattrs", nodeattrInput(plan, Missing, ""))
        r   == doNodeAttrRequest(o)
    IN  IF r.err # NoErr THEN Result(Absent, <<Diag("Create nodeattr error", r.err)>>, <<req>>)
        ELSE IF r.body.form # "object" THEN
            Result(Absent, <<Diag("Parse create response error", ParseErr)>>, <<req>>)
        ELSE Result(nodeattrState(r.body), <<>>, <<req>>)

nodeattrRead(cur, o) ==
    IF cur.id = "" THEN Result(Absent, <<>>, <<>>)
    ELSE
    LET req == Req("GET", "/nodeattrs/" \o cur.id, NilPayload)
        r   == doNodeAttrRequest(o)
    IN  IF r.err # NoErr THEN
            IF isNotFound(r.err) THEN Result(Absent, <<>>, <<req>>)
            ELSE Result(cur, <<Diag("Read nodeattr error", r.err)>>, <<req>>)
        ELSE IF r.body.form # "object" THEN
            Result(cur, <<Diag("Parse read response error", ParseErr)>>, <<req>>)
        ELSE Result(nodeattrState(r.body), <<>>, <<req>>)

nodeattrUpdate(cur, plan, o) ==
    IF cur.id = "" THEN Result(Absent, <<>>, <<>>)
    ELSE IF hasAttr(plan) = hasApp(plan) THEN Result(cur, <<ExactlyOneDiag>>, <<>>)
    ELSE IF ~hasAttr(plan) /\ ~UnmarshalApp(plan.app).ok THEN
        Result(cur, <<Diag("Invalid app_json", ParseErr)>>, <<>>)
    ELSE
    LET req == Req("PUT", "/nodeattrs", nodeattrInput(plan, cur.id, "grant"))
        r   == doNodeAttrRequest(o)
    IN  IF r.err # NoErr THEN
            IF isNotFound(r.err) THEN Result(Absent, <<>>, <<req>>)
            ELSE Result(cur, <<Diag("Update nodeattr error", r.err)>>, <<req>>)
        ELSE IF r.body.form # "object" THEN
            Result(cur, <<Diag("Parse update response error", ParseErr)>>, <<req>>)
        ELSE Result(nodeattrState(r.body), <<>>, <<req>>)

\* faulty variant: DELETE is addressed to the entry's own path and has no body
nodeattrDeleteByPath(cur, o) ==
    IF cur.id = "" THEN Result(Absent, <<>>, <<>>)
    ELSE
    LET req == Req("DELETE", "/nodeattrs/" \o cur.id, NilPayload)
        r   == doNodeAttrRequest(o)
    IN  IF r.err # NoErr /\ ~isNotFound(r.err) THEN
            Result(cur, <<Diag("Delete nodeattr error", r.err)>>, <<req>>)
        ELSE Result(Absent, <<>>, <<req>>)

nodeattrDelete(cur, o) ==
    IF cur.id = "" THEN Result(Absent, <<>>, <<>>)
    ELSE
    LET req == Req("DELETE", "/nodeattrs", Payload(cur.id, Missing, Missing, Missing, Missing, ""))
        r   == doNodeAttrRequest(o)
    IN  IF r.err # NoErr /\ ~isNotFound(r.err) THEN
            Result(cur, <<Diag("Delete nodeattr error", r.err)>>, <<req>>)
        ELSE Result(Absent, <<>>, <<req>>)


----------------------------------------------------------------------------
(* Group: /groups, keyed by name; the stored id is the name *)

\* the response is decoded only to check that it parses; the plan is stored
groupCreate(plan, o) ==
    LET req == Req("POST", "/groups", Payload(Missing, plan.name, plan.val, Missing, Missing, ""))
        r   == doGroupRequest(o)
    IN  IF r.err # NoErr THEN Result(Absent, <<Diag("Create group error", r.err)>>, <<req>>)
        ELSE IF r.body.form # "object" THEN
            Result(Absent, <<Diag("Error parsing create response", ParseErr)>>, <<req>>)
        ELSE Result(St(plan.name, plan.name, plan.val, Null, Null), <<>>, <<req>>)

groupRead(cur, o) ==
    LET req == Req("GET", "/groups/" \o cur.name, NilPayload)
        r   == doGroupRequest(o)
    IN  IF r.err # NoErr THEN
            IF isNotFound(r.err) THEN Result(Absent, <<>>, <<req>>)
            ELSE Result(cur, <<Diag("Read group error", r.err)>>, <<req>>)
        ELSE IF r.body.form # "object" THEN
            Result(cur, <<Diag("Error parsing read response", ParseErr)>>, <<req>>)
        ELSE Result(St(cur.name, cur.name,
                       IF r.body.val # Missing THEN r.body.val ELSE cur.val, Null, Null),
                    <<>>, <<req>>)

\* only the plan is read: the name sent and stored is the plan's name
groupUpdate(cur, plan, o) ==
    LET req == Req("PUT", "/groups", Payload(Missing, plan.name, plan.val, Missing, Missing, ""))
        r   == doGroupRequest(o)
    IN  IF r.err # NoErr THEN
            IF isNotFound(r.err) THEN Result(Absent, <<>>, <<req>>)
            ELSE Result(cur, <<Diag("Update group error", r.err)>>, <<req>>)
        ELSE IF r.body.form # "object" THEN
            Result(cur, <<Diag("Error parsing update response", ParseErr)>>, <<req>>)
        ELSE Result(St(plan.name, plan.name,
                       IF r.body.val # Missing THEN r.body.val ELSE plan.val, Null, Null),
                    <<>>, <<req>>)

groupDelete(cur, o) ==
    LET req == Req("DELETE", "/groups", Payload(Missing, cur.name, Missing, Missing, Missing, ""))
        r   == doGroupRequest(o)
    IN  IF r.err # NoErr /\ ~isNotFound(r.err) THEN
            Result(cur, <<Diag("Delete group error", r.err)>>, <<req>>)
        ELSE Result(Absent, <<>>, <<req>>)

----------------------------------------------------------------------------
(* Host: /hosts, keyed by name; the stored id is the name *)

\* the response is decoded only to check that it parses; the plan is stored
hostsCreate(plan, o) ==
    LET req == Req("POST", "/hosts", Payload(Missing, plan.name, plan.val, Missing, Missing, ""))
        r   == doHostsRequest(o)
    IN  IF r.err # NoErr THEN Result(Absent, <<Diag("Create host error", r.err)>>, <<req>>)
        ELSE IF r.body.form # "object" THEN
            Result(Absent, <<Diag("JSON parse error", ParseErr)>>, <<req>>)
        ELSE Result(St(plan.name, plan.name, plan.val, Null, Null), <<>>, <<req>>)

hostsRead(cur, o) ==
    LET req == Req("GET", "/hosts/" \o cur.name, NilPayload)
        r   == doHostsRequest(o)
    IN  IF r.err # NoErr THEN
            IF isNotFound(r.err) THEN Result(Absent, <<>>, <<req>>)
            ELSE Result(cur, <<Diag("Read host error", r.err)>>, <<req>>)
        ELSE IF r.body.form # "object" THEN
            Result(cur, <<Diag("Parse read error", ParseErr)>>, <<req>>)
        ELSE Result(St(cur.name, cur.name,
                       IF r.body.val # Missing THEN r.body.val ELSE cur.val, Null, Null),
                    <<>>, <<req>>)

\* only the plan is read: the name sent and stored is the plan's name
hostsUpdate(cur, plan, o) ==
    LET req == Req("PUT", "/hosts", Payload(Missing, plan.name, plan.val, Missing, Missing, ""))
        r   == doHostsRequest(o)
    IN  IF r.err # NoErr THEN
            IF isNotFound(r.err) THEN Result(Absent, <<>>, <<req>>)
            ELSE Result(cur, <<Diag("Update host error", r.err)>>, <<req>>)
        ELSE IF r.body.form # "object" THEN
            Result(cur, <<Diag("Parse update error", ParseErr)>>, <<req>>)
        ELSE Result(St(plan.name, plan.name,
                       IF r.body.val # Missing THEN r.body.val ELSE plan.val, Null, Null),
                    <<>>, <<req>>)

hostsDelete(cur, o) ==
    LET req == Req("DELETE", "/hosts", Payload(Missing, cur.name, Missing, Missing, Missing, ""))
        r   == doHostsRequest(o)
    IN  IF r.err # NoErr /\ ~isNotFound(r.err) THEN
            Result(cur, <<Diag("Delete host error", r.err)>>, <<req>>)
        ELSE Result(Absent, <<>>, <<req>>)

----------------------------------------------------------------------------
(* TagOwner: /tagowners, keyed by name *)

tagOwnersCreate(plan, o) ==
    LET req == Req("POST", "/tagowners", Payload(Missing, plan.name, plan.val, Missing, Missing, ""))
        r   == doTagOwnersRequest(o)
    IN  IF r.err # NoErr THEN Result(Absent, <<Diag("Create tagowner error", r.err)>>, <<req>>)
        ELSE IF r.body.form # "object" THEN
            Result(Absent, <<Diag("Parse create response error", ParseErr)>>, <<req>>)
        ELSE Result(St(Str(r.body.name), Str(r.body.name), Str(r.body.val), Null, Null), <<>>, <<req>>)

tagOwnersRead(cur, o) ==
    IF cur.name = "" THEN Result(Absent, <<>>, <<>>)
    ELSE
    LET req == Req("GET", "/tagowners/" \o cur.name, NilPayload)
        r   == doTagOwnersRequest(o)
    IN  IF r.err # NoErr THEN
            IF isNotFound(r.err) THEN Result(Absent, <<>>, <<req>>)
            ELSE Result(cur, <<Diag("Read tagowner error", r.err)>>, <<req>>)
        ELSE IF r.body.form # "object" THEN
            Result(cur, <<Diag("Parse read response error", ParseErr)>>, <<req>>)
        ELSE Result(St(Str(r.body.name), Str(r.body.name), Str(r.body.val), Null, Null), <<>>, <<req>>)

\* plan.ID and plan.Name are overwritten with the stored ones before the request
tagOwnersUpdate(cur, plan, o) ==
    IF cur.name = "" THEN Result(Absent, <<>>, <<>>)
    ELSE
    LET req == Req("PUT", "/tagowners", Payload(Missing, cur.name, plan.val, Missing, Missing, ""))
        r   == doTagOwnersRequest(o)
    IN  IF r.err # NoErr THEN
            IF isNotFound(r.err) THEN Result(Absent, <<>>, <<req>>)
            ELSE Result(cur, <<Diag("Update tagowner error", r.err)>>, <<req>>)
        ELSE IF r.body.form # "object" THEN
            Result(cur, <<Diag("Parse update response error", ParseErr)>>, <<req>>)
        ELSE Result(St(Str(r.body.name), Str(r.body.name), Str(r.body.val), Null, Null), <<>>, <<req>>)

tagOwnersDelete(cur, o) ==
    IF cur.name = "" THEN Result(Absent, <<>>, <<>>)
    ELSE
    LET req == Req("DELETE", "/tagowners", Payload(Missing, cur.name, Missing, Missing, Missing, ""))
        r   == doTagOwnersRequest(o)
    IN  IF r.err # NoErr /\ ~isNotFound(r.err) THEN
            Result(cur, <<Diag("Delete tagowner error", r.err)>>, <<req>>)
        ELSE Result(Absent, <<>>, <<req>>)

----------------------------------------------------------------------------
(* Posture: /postures keyed by name, and the default posture at /postures/default *)

\* faulty variant: the default posture is sent in the named shape { name, rules }
defaultPosturePayloadNamed(rules) ==
    Payload(Missing, "default", rules, Missing, Missing, "")

\* defaultPosturePayload: { "defaultSourcePosture": rules }, no name
defaultPosturePayload(rules) ==
    Payload(Missing, Missing, rules, Missing, Missing, "defaultSourcePosture")

\* faulty variant: a failed request of Create is sent a second time
postureCreateRetrying(plan, o) ==
    LET req == IF plan.name = "default"
               THEN Req("PUT", "/postures/default", defaultPosturePayload(plan.val))
               ELSE Req("POST", "/postures", Payload(Missing, plan.name, plan.val, Missing, Missing, ""))
        r   == doPostureRequest(o)
    IN  IF r.err # NoErr THEN
            Result(Absent, <<Diag("Create posture error", r.err)>>, <<req, req>>)
        ELSE IF plan.name = "default" THEN
            Result(St(plan.name, plan.name, plan.val, Null, Null), <<>>, <<req>>)
        ELSE IF r.body.form # "object" THEN
            Result(Absent, <<Diag("Error parsing create response", ParseErr)>>, <<req>>)
        ELSE Result(St(Str(r.body.name), plan.name, plan.val, Null, Null), <<>>, <<req>>)

postureCreate(plan, o) ==
    IF plan.name = "default" THEN
        LET req == Req("PUT", "/postures/default", defaultPosturePayload(plan.val))
            r   == doPostureRequest(o)
        IN  IF r.err # NoErr THEN
                Result(Absent, <<Diag("Create default posture error", r.err)>>, <<req>>)
            ELSE Result(St(plan.name, plan.name, plan.val, Null, Null), <<>>, <<req>>)
    ELSE
        LET req == Req("POST", "/postures", Payload(Missing, plan.name, plan.val, Missing, Missing, ""))
            r   == doPostureRequest(o)
        IN  IF r.err # NoErr THEN Result(Absent, <<Diag("Create posture error", r.err)>>, <<req>>)
            ELSE IF r.body.form # "object" THEN
                Result(Absent, <<Diag("Error parsing create response", ParseErr)>>, <<req>>)
            ELSE Result(St(Str(r.body.name), plan.name, plan.val, Null, Null), <<>>, <<req>>)

postureRead(cur, o) ==
    IF cur.name = "" THEN Result(Absent, <<>>, <<>>)
    ELSE IF cur.name = "default" THEN
        LET req == Req("GET", "/postures/default", NilPayload)
            r   == doPostureRequest(o)
        IN  IF r.err # NoErr THEN
                IF isNotFound(r.err) THEN Result(Absent, <<>>, <<req>>)
                ELSE Result(cur, <<Diag("Read default posture error", r.err)>>, <<req>>)
            ELSE IF r.body.form # "object" THEN
                Result(cur, <<Diag("Parse default posture error", ParseErr)>>, <<req>>)
            ELSE Result(St(cur.id, cur.name, Str(r.body.val), Null, Null), <<>>, <<req>>)
    ELSE
        LET req == Req("GET", "/postures/" \o cur.name, NilPayload)
            r   == doPostureRequest(o)
        IN  IF r.err # NoErr THEN
                IF isNotFound(r.err) THEN Result(Absent, <<>>, <<req>>)
                ELSE Result(cur, <<Diag("Read named posture error", r.err)>>, <<req>>)
            ELSE IF r.body.form # "object" THEN
                Result(cur, <<Diag("Parse named posture error", ParseErr)>>, <<req>>)
            ELSE Result(St(cur.id, cur.name, Str(r.body.val), Null, Null), <<>>, <<req>>)

\* the branch and the name sent are taken from the plan, not from the stored state
postureUpdate(cur, plan, o) ==
    IF plan.name = "default" THEN
        LET req == Req("PUT", "/postures/default", defaultPosturePayload(plan.val))
            r   == doPostureRequest(o)
        IN  IF r.err # NoErr THEN
                IF isNotFound(r.err) THEN Result(Absent, <<>>, <<req>>)
                ELSE Result(cur, <<Diag("Update default posture error", r.err)>>, <<req>>)
            ELSE Result(St(plan.name, plan.name, plan.val, Null, Null), <<>>, <<req>>)
    ELSE
        LET req == Req("PUT", "/postures", Payload(Missing, plan.name, plan.val, Missing, Missing, ""))
            r   == doPostureRequest(o)
        IN  IF r.err # NoErr THEN
                IF isNotFound(r.err) THEN Result(Absent, <<>>, <<req>>)
                ELSE Result(cur, <<Diag("Update named posture error", r.err)>>, <<req>>)
            ELSE IF r.body.form # "object" THEN
                Result(cur, <<Diag("Parse update response error", ParseErr)>>, <<req>>)
            ELSE Result(St(Str(r.body.name), plan.name, plan.val, Null, Null), <<>>, <<req>>)

postureDelete(cur, o) ==
    IF cur.name = "" THEN Result(Absent, <<>>, <<>>)
    ELSE IF cur.name = "default" THEN
        LET req == Req("DELETE", "/postures/default", NilPayload)
            r   == doPostureRequest(o)
        IN  IF r.err # NoErr /\ ~isNotFound(r.err) THEN
                Result(cur, <<Diag("Delete default posture error", r.err)>>, <<req>>)
            ELSE Result(Absent, <<>>, <<req>>)
    ELSE
        LET req == Req("DELETE", "/postures", Payload(Missing, cur.name, Missing, Missing, Missing, ""))
            r   == doPostureRequest(o)
        IN  IF r.err # NoErr /\ ~isNotFound(r.err) THEN
                Result(cur, <<Diag("Delete named posture error", r.err)>>, <<req>>)
            ELSE Result(Absent, <<>>, <<req>>)

----------------------------------------------------------------------------
(* Settings: the single object at /settings *)

settingsCreate(plan, o) ==
    LET req == Req("POST", "/settings", Payload(Missing, Missing, plan.val, Missing, Missing, ""))
        r   == doSettingsRequest(o)
    IN  IF r.err # NoErr THEN Result(Absent, <<Diag("Create settings error", r.err)>>, <<req>>)
        ELSE IF r.body.form # "object" THEN
            Result(Absent, <<Diag("Parse create response error", ParseErr)>>, <<req>>)
        ELSE Result(St("settings", Null,
                       IF r.body.val # Missing THEN r.body.val ELSE plan.val, Null, Null),
                    <<>>, <<req>>)

\* faulty variant: the GET is addressed by the stored id, as for a collection
settingsReadByID(cur, o) ==
    LET req == Req("GET", "/settings/" \o cur.id, NilPayload)
        r   == doSettingsRequest(o)
    IN  IF r.err # NoErr THEN
            IF isNotFound(r.err) THEN Result(Absent, <<>>, <<req>>)
            ELSE Result(cur, <<Diag("Read settings error", r.err)>>, <<req>>)
        ELSE IF r.body.form # "object" THEN
            Result(cur, <<Diag("Parse read response error", ParseErr)>>, <<req>>)
        ELSE Result(St("settings", Null, Str(r.body.val), Null, Null), <<>>, <<req>>)

\* a key the response lacks is stored as false / ""
settingsRead(cur, o) ==
    LET req == Req("GET", "/settings", NilPayload)
        r   == doSettingsRequest(o)
    IN  IF r.err # NoErr THEN
            IF isNotFound(r.err) THEN Result(Absent, <<>>, <<req>>)
            ELSE Result(cur, <<Diag("Read settings error", r.err)>>, <<req>>)
        ELSE IF r.body.form # "object" THEN
            Result(cur, <<Diag("Parse read response error", ParseErr)>>, <<req>>)
        ELSE Result(St("settings", Null, Str(r.body.val), Null, Null), <<>>, <<req>>)

settingsUpdate(cur, plan, o) ==
    LET req == Req("PUT", "/settings", Payload(Missing, Missing, plan.val, Missing, Missing, ""))
        r   == doSettingsRequest(o)
    IN  IF r.err # NoErr THEN
            IF isNotFound(r.err) THEN Result(Absent, <<>>, <<req>>)
            ELSE Result(cur, <<Diag("Update settings error", r.err)>>, <<req>>)
        ELSE IF r.body.form # "object" THEN
            Result(cur, <<Diag("Parse update response error", ParseErr)>>, <<req>>)
        ELSE Result(St("settings", Null,
                       IF r.body.val # Missing THEN r.body.val ELSE plan.val, Null, Null),
                    <<>>, <<req>>)

settingsDelete(cur, o) ==
    LET req == Req("DELETE", "/settings", NilPayload)
        r   == doSettingsRequest(o)
    IN  IF r.err # NoErr /\ ~isNotFound(r.err) THEN
            Result(cur, <<Diag("Delete settings error", r.err)>>, <<req>>)
        ELSE Result(Absent, <<>>, <<req>>)

----------------------------------------------------------------------------
(* AutoApprovers: the single object at /autoapprovers *)

autoApproversCreate(plan, o) ==
    LET req == Req("POST", "/autoapprovers", Payload(Missing, Missing, plan.val, Missing, Missing, ""))
        r   == doSingleObjectReq(o)
    IN  IF r.err # NoErr THEN Result(Absent, <<Diag("Create error", r.err)>>, <<req>>)
        ELSE IF r.body.form # "object" THEN
            Result(Absent, <<Diag("Error parse create response", ParseErr)>>, <<req>>)
        ELSE Result(St("autoapprovers", Null, Str(r.body.val), Null, Null), <<>>, <<req>>)

autoApproversRead(cur, o) ==
    LET req == Req("GET", "/autoapprovers", NilPayload)
        r   == doSingleObjectReq(o)
    IN  IF r.err # NoErr THEN
            IF isNotFound(r.err) THEN Result(Absent, <<>>, <<req>>)
            ELSE Result(cur, <<Diag("Read error", r.err)>>, <<req>>)
        ELSE IF r.body.form # "object" THEN
            Result(cur, <<Diag("Parse read error", ParseErr)>>, <<req>>)
        ELSE Result(St("autoapprovers", Null, Str(r.body.val), Null, Null), <<>>, <<req>>)

autoApproversUpdate(cur, plan, o) ==
    LET req == Req("PUT", "/autoapprovers", Payload(Missing, Missing, plan.val, Missing, Missing, ""))
        r   == doSingleObjectReq(o)
    IN  IF r.err # NoErr THEN
            IF isNotFound(r.err) THEN Result(Absent, <<>>, <<req>>)
            ELSE Result(cur, <<Diag("Update error", r.err)>>, <<req>>)
        ELSE IF r.body.form # "object" THEN
            Result(cur, <<Diag("Parse error", ParseErr)>>, <<req>>)
        ELSE Result(St("autoapprovers", Null, Str(r.body.val), Null, Null), <<>>, <<req>>)

autoApproversDelete(cur, o) ==
    LET req == Req("DELETE", "/autoapprovers", NilPayload)
        r   == doSingleObjectReq(o)
    IN  IF r.err # NoErr /\ ~isNotFound(r.err) THEN
            Result(cur, <<Diag("Delete error", r.err)>>, <<req>>)
        ELSE Result(Absent, <<>>, <<req>>)

----------------------------------------------------------------------------
(* DERPMap: the single typed object at /derpmap *)

derpMapCreate(plan, o) ==
    LET req == Req("POST", "/derpmap", Payload(Missing, Missing, plan.val, Missing, Missing, ""))
        r   == doDERPMapRequest(o)
    IN  IF r.err # NoErr THEN Result(Absent, <<Diag("Create DERPMap error", r.err)>>, <<req>>)
        ELSE Result(St("derpmap", Null, Str(r.body.val), Null, Null), <<>>, <<req>>)

derpMapRead(cur, o) ==
    LET req == Req("GET", "/derpmap", NilPayload)
        r   == doDERPMapRequest(o)
    IN  IF r.err # NoErr THEN
            IF isNotFound(r.err) THEN Result(Absent, <<>>, <<req>>)
            ELSE Result(cur, <<Diag("Read DERPMap error", r.err)>>, <<req>>)
        ELSE Result(St("derpmap", Null, Str(r.body.val), Null, Null), <<>>, <<req>>)

derpMapUpdate(cur, plan, o) ==
    LET req == Req("PUT", "/derpmap", Payload(Missing, Missing, plan.val, Missing, Missing, ""))
        r   == doDERPMapRequest(o)
    IN  IF r.err # NoErr THEN
            IF isNotFound(r.err) THEN Result(Absent, <<>>, <<req>>)
            ELSE Result(cur, <<Diag("Update DERPMap error", r.err)>>, <<req>>)
        ELSE Result(St("derpmap", Null, Str(r.body.val), Null, Null), <<>>, <<req>>)

derpMapDelete(cur, o) ==
    LET req == Req("DELETE", "/derpmap", NilPayload)
        r   == doDERPMapRequest(o)
    IN  IF r.err # NoErr /\ ~isNotFound(r.err) THEN
            Result(cur, <<Diag("Delete DERPMap error", r.err)>>, <<req>>)
        ELSE Result(Absent, <<>>, <<req>>)

----------------------------------------------------------------------------
(* Data sources: one Read each, from the config to the data source's state *)

\* the config of a data source: the id or name it looks up (Null where it has none)
Config(id, name) == [id |-> id, name |-> name]
NoConfig == Config(Null, Null)

\* an id that strconv.Atoi accepts
IndexID == "0"

Configs(k) ==
    CASE k \in {ACL, SSH}  -> {Config(id, Null) : id \in Ids \cup {""}}
      [] k = NodeAttr      -> {Config(id, Null) : id \in Ids \cup {"", IndexID}}
      [] k = Posture       -> {Config(id, Null) : id \in Names}
      [] k \in NamedKinds  -> {Config(Null, name) : name \in {"", "n1", "n2"}}
      [] OTHER             -> {NoConfig}

\* resp.Diagnostics.AddWarning(summary, detail)
Warning(summary) ==
    [severity |-> "warning", summary |-> summary, detail |-> Err("warning", summary, 0, "")]

\* strconv.Atoi(idxStr) succeeded
Atoi(x) == x = IndexID

\* the helpers of the data sources have the shape of doRequest
doACLDSRequest(o)         == doRequest("ACL not found", o)
doSSHDataSourceRequest(o) == doRequest("SSH rule not found", o)
doNodeAttrDSHTTP(o)       == doRequest("nodeattr not found", o)
doDSRequest(o)            == doRequest("Data source group not found", o)
doHostsDSRequest(o)       == doRequest("Host not found", o)
doTagOwnersDSRequest(o)   == doRequest("TagOwner not found", o)
doDSHTTPRequest(o)        == doRequest("posture not found", o)
doSettingsDSRequest(o)    == doRequest("Settings not found", o)

\* doDERPMapDSRequest: 404 -> fmt.Errorf("NotFound"); a 2xx body is decoded in the helper
doDERPMapDSRequest(o) ==
    IF o.t = "neterr" THEN [body |-> NoBody, err |-> Errorf("DS request error", 0, ""), open |-> FALSE]
    ELSE IF o.status = 404 THEN [body |-> NoBody, err |-> Errorf("NotFound", 0, ""), open |-> FALSE]
    ELSE IF o.status >= 300 THEN
        [body |-> NoBody, err |-> Errorf("DERPMap DS returned", o.status, o.body.text), open |-> FALSE]
    ELSE IF o.body.form # "object" THEN
        [body |-> NoBody, err |-> Errorf("decode DS response", 0, ""), open |-> FALSE]
    ELSE [body |-> o.body, err |-> NoErr, open |-> FALSE]

\* faulty variant: a not-found answer is reported like any other failure
dataReadNotFoundIsError(url, r, notFoundDiags, errSummary, parseSummary, st) ==
    LET req == Req("GET", url, NilPayload)
    IN  IF r.err # NoErr THEN Result(Absent, <<Diag(errSummary, r.err)>>, <<req>>)
        ELSE IF r.body.form # "object" THEN
            Result(Absent, <<Diag(parseSummary, ParseErr)>>, <<req>>)
        ELSE Result(st, <<>>, <<req>>)

\* the common course of a data source Read: GET, 404 -> return (with or without
\* a warning), other error -> AddError, unparsable body -> AddError, else State.Set
dataRead(url, r, notFoundDiags, errSummary, parseSummary, st) ==
    LET req == Req("GET", url, NilPayload)
    IN  IF r.err # NoErr THEN
            IF isNotFound(r.err) THEN Result(Absent, notFoundDiags, <<req>>)
            ELSE Result(Absent, <<Diag(errSummary, r.err)>>, <<req>>)
        ELSE IF r.body.form # "object" THEN
            Result(Absent, <<Diag(parseSummary, ParseErr)>>, <<req>>)
        ELSE Result(st, <<>>, <<req>>)

aclDataSourceRead(cfg, o) ==
    IF cfg.id = "" THEN
        Result(Absent, <<Diag("Missing UUID", Err("validation", "id is required", 0, ""))>>, <<>>)
    ELSE LET r == doACLDSRequest(o) IN
         dataRead("/acls/" \o cfg.id, r, <<Warning("ACL Not Found")>>,
                  "Error reading ACL data source", "JSON parse error",
                  St(Str(r.body.id), Null, Str(r.body.val), Null, Null))

sshDataSourceRead(cfg, o) ==
    IF cfg.id = "" THEN
        Result(Absent, <<Diag("Missing SSH rule ID", Err("validation", "id is required", 0, ""))>>, <<>>)
    ELSE LET r == doSSHDataSourceRequest(o) IN
         dataRead("/ssh/" \o cfg.id, r, <<Warning("Not found")>>,
                  "Error reading SSH data source", "JSON parse error",
                  St(Str(r.body.id), Null, Str(r.body.val), Null, Null))

\* the id is parsed as an integer index; a key the response lacks is stored null
nodeattrDataSourceRead(cfg, o) ==
    IF ~Atoi(cfg.id) THEN
        Result(Absent, <<Diag("Invalid ID", Err("validation", "not an integer", 0, ""))>>, <<>>)
    ELSE LET r == doNodeAttrDSHTTP(o) IN
         dataRead("/nodeattrs/" \o cfg.id, r, <<>>,
                  "Read nodeattr DS error", "Parse DS response error",
                  St(cfg.id, Null,
                     IF r.body.val # Missing THEN r.body.val ELSE Null,
                     IF r.body.attr # Missing THEN r.body.attr ELSE Null,
                     IF r.body.app # NilMap THEN MarshalApp(r.body.app) ELSE Null))

groupDataSourceRead(cfg, o) ==
    LET r == doDSRequest(o) IN
    dataRead("/groups/" \o cfg.name, r, <<Warning("Group not found")>>,
             "Error reading group data source", "JSON parse error",
             St(cfg.name, cfg.name, IF r.body.val # Missing THEN r.body.val ELSE Null, Null, Null))

hostsDataSourceRead(cfg, o) ==
    LET r == doHostsDSRequest(o) IN
    dataRead("/hosts/" \o cfg.name, r, <<Warning("Host not found")>>,
             "Read host DS error", "Parse DS response error",
             St(cfg.name, cfg.name, IF r.body.val # Missing THEN r.body.val ELSE Null, Null, Null))

tagOwnersDataSourceRead(cfg, o) ==
    IF cfg.name = "" THEN
        Result(Absent, <<Diag("Invalid Tag Name", Err("validation", "name is required", 0, ""))>>, <<>>)
    ELSE LET r == doTagOwnersDSRequest(o) IN
         dataRead("/tagowners/" \o cfg.name, r, <<>>,
                  "Read tagowner DS error", "Parse DS response error",
                  St(Null, Str(r.body.name), Str(r.body.val), Null, Null))

postureDataSourceRead(cfg, o) ==
    LET r == doDSHTTPRequest(o) IN
    dataRead(IF cfg.id = "default" THEN "/postures/default" ELSE "/postures/" \o cfg.id,
             r, <<>>, "Error reading posture data source", "JSON parse error",
             St(cfg.id, Null, Str(r.body.val), Null, Null))

settingsDataSourceRead(cfg, o) ==
    LET r == doSettingsDSRequest(o) IN
    dataRead("/settings", r, <<>>, "Read settings DS error", "Parse DS error",
             St("settings", Null, Str(r.body.val), Null, Null))

autoApproversDataSourceRead(cfg, o) ==
    LET r == doSingleObjectReq(o) IN
    dataRead("/autoapprovers", r, <<>>, "Read DS error", "Parse DS error",
             St("autoapprovers", Null, Str(r.body.val), Null, Null))

derpMapDataSourceRead(cfg, o) ==
    LET r == doDERPMapDSRequest(o) IN
    dataRead("/derpmap", r, <<>>, "DERPMap data source read error", "decode DS response",
             St("derpmap", Null, Str(r.body.val), Null, Null))

----------------------------------------------------------------------------
(* The handlers by resource type *)

CreateOf(k, plan, o) ==
    CASE k = ACL           -> aclCreate(plan, o)
      [] k = SSH           -> sshCreate(plan, o)
      [] k = NodeAttr      -> nodeattrCreate(plan, o)
      [] k = Group         -> groupCreate(plan, o)
      [] k = Host          -> hostsCreate(plan, o)
      [] k = TagOwner      -> tagOwnersCreate(plan, o)
      [] k = Posture       -> postureCreate(plan, o)
      [] k = Settings      -> settingsCreate(plan, o)
      [] k = AutoApprovers -> autoApproversCreate(plan, o)
      [] k = DERPMap       -> derpMapCreate(plan, o)

ReadOf(k, cur, o) ==
    CASE k = ACL           -> aclRead(cur, o)
      [] k = SSH           -> sshRead(cur, o)
      [] k = NodeAttr      -> nodeattrRead(cur, o)
      [] k = Group         -> groupRead(cur, o)
      [] k = Host          -> hostsRead(cur, o)
      [] k = TagOwner      -> tagOwnersRead(cur, o)
      [] k = Posture       -> postureRead(cur, o)
      [] k = Settings      -> settingsRead(cur, o)
      [] k = AutoApprovers -> autoApproversRead(cur, o)
      [] k = DERPMap       -> derpMapRead(cur, o)

UpdateOf(k, cur, plan, o) ==
    CASE k = ACL           -> aclUpdate(cur, plan, o)
      [] k = SSH           -> sshUpdate(cur, plan, o)
      [] k = NodeAttr      -> nodeattrUpdate(cur, plan, o)
      [] k = Group         -> groupUpdate(cur, plan, o)
      [] k = Host          -> hostsUpdate(cur, plan, o)
      [] k = TagOwner      -> tagOwnersUpdate(cur, plan, o)
      [] k = Posture       -> postureUpdate(cur, plan, o)
      [] k = Settings      -> settingsUpdate(cur, plan, o)
      [] k = AutoApprovers -> autoApproversUpdate(cur, plan, o)
      [] k = DERPMap       -> derpMapUpdate(cur, plan, o)

DeleteOf(k, cur, o) ==
    CASE k = ACL           -> aclDelete(cur, o)
      [] k = SSH           -> sshDelete(cur, o)
      [] k = NodeAttr      -> nodeattrDelete(cur, o)
      [] k = Group         -> groupDelete(cur, o)
      [] k = Host          -> hostsDelete(cur, o)
      [] k = TagOwner      -> tagOwnersDelete(cur, o)
      [] k = Posture       -> postureDelete(cur, o)
      [] k = Settings      -> settingsDelete(cur, o)
      [] k = AutoApprovers -> autoApproversDelete(cur, o)
      [] k = DERPMap       -> derpMapDelete(cur, o)

DataReadOf(k, cfg, o) ==
    CASE k = ACL           -> aclDataSourceRead(cfg, o)
      [] k = SSH           -> sshDataSourceRead(cfg, o)
      [] k = NodeAttr      -> nodeattrDataSourceRead(cfg, o)
      [] k = Group         -> groupDataSourceRead(cfg, o)
      [] k = Host          -> hostsDataSourceRead(cfg, o)
      [] k = TagOwner      -> tagOwnersDataSourceRead(cfg, o)
      [] k = Posture       -> postureDataSourceRead(cfg, o)
      [] k = Settings      -> settingsDataSourceRead(cfg, o)
      [] k = AutoApprovers -> autoApproversDataSourceRead(cfg, o)
      [] k = DERPMap       -> derpMapDataSourceRead(cfg, o)

\* the request helper each resource's handlers call, and each data source's Read
RequestHelperOf(k, o) ==
    CASE k = ACL           -> doACLIDRequest(o)
      [] k = SSH           -> doSSHIDRequest(o)
      [] k = NodeAttr      -> doNodeAttrRequest(o)
      [] k = Group         -> doGroupRequest(o)
      [] k = Host          -> doHostsRequest(o)
      [] k = TagOwner      -> doTagOwnersRequest(o)
      [] k = Posture       -> doPostureRequest(o)
      [] k = Settings      -> doSettingsRequest(o)
      [] k = AutoApprovers -> doSingleObjectReq(o)
      [] k = DERPMap       -> doDERPMapRequest(o)

DataHelperOf(k, o) ==
    CASE k = ACL           -> doACLDSRequest(o)
      [] k = SSH           -> doSSHDataSourceRequest(o)
      [] k = NodeAttr      -> doNodeAttrDSHTTP(o)
      [] k = Group         -> doDSRequest(o)
      [] k = Host          -> doHostsDSRequest(o)
      [] k = TagOwner      -> doTagOwnersDSRequest(o)
      [] k = Posture       -> doDSHTTPRequest(o)
      [] k = Settings      -> doSettingsDSRequest(o)
      [] k = AutoApprovers -> doSingleObjectReq(o)
      [] k = DERPMap       -> doDERPMapDSRequest(o)

----------------------------------------------------------------------------
(* The provider *)

\* taclProviderModel: the attributes of the provider block; Null is an omitted
\* one, and the bool attribute is written "true" / "false"
ProviderModel(endpoint, clientID, clientSecret, tailnetName, tags, ephemeral) ==
    [endpoint |-> endpoint, client_id |-> clientID, client_secret |-> clientSecret,
     tailnet_name |-> tailnetName, tags |-> tags, ephemeral |-> ephemeral]

ProviderModels ==
    {ProviderModel(e, id, secret, tailnet, tags, eph) :
        e \in {"http://a", "http://b"}, id \in {Null, "cid"}, secret \in {Null, "secret"},
        tailnet \in {Null, "corp.ts.net"}, tags \in {Null, "tag:ci"},
        eph \in {Null, "true", "false"}}

\* an endpoint alone: no auth, nothing optional set
BaseConfig == ProviderModel("http://a", Null, Null, Null, Null, Null)

\* types.String.ValueString(): "" for a null value
ValueString(x) == IF x = Null THEN "" ELSE x
\* types.Bool.ValueBool(): false for a null value
ValueBool(x) == x = "true"

\* the provider before Configure: the zero taclProvider
Unconfigured(config) ==
    [configured |-> FALSE, config |-> config, endpoint |-> "", tailnetName |-> "",
     ephemeralMode |-> FALSE, tags |-> "", httpClient |-> "nil"]

\* taclProvider.Configure: ephemeralMode = !IsNull() && ValueBool(); the OAuth
\* client when both client_id and client_secret are set, else http.DefaultClient
Configured(config) ==
    [configured |-> TRUE, config |-> config,
     endpoint |-> ValueString(config.endpoint),
     tailnetName |-> ValueString(config.tailnet_name),
     ephemeralMode |-> (config.ephemeral # Null /\ ValueBool(config.ephemeral)),
     tags |-> ValueString(config.tags),
     httpClient |-> IF ValueString(config.client_id) # "" /\ ValueString(config.client_secret) # ""
                    THEN "oauth" ELSE "default"]

----------------------------------------------------------------------------
(* The typed DERPMap: regions and nodes *)

MaxNodes == 2

\* region ids, and node names with their rank in string order
RegionIDs == {1, 2}
NodeNames == {"a", "b"}
Rank(n) == CASE n = "a" -> 1 [] n = "b" -> 2

\* sequences over S of length at most n
SeqsUpTo(S, n) == UNION {[1..k -> S] : k \in 0..n}

\* derpMapRegionModel: one region block of a plan or of the state
RegionModel(id, nodes) == [region_id |-> id, nodes |-> nodes]

\* the regions of a plan: in any order, a region_id possibly repeated
PlanRegions ==
    SeqsUpTo({RegionModel(id, nodes) : id \in RegionIDs, nodes \in SeqsUpTo(NodeNames, MaxNodes)},
             Cardinality(RegionIDs))

\* a nil *ACLDERPNode, as JSON null decodes to
NilPtr == "<nil>"

\* *ACLDERPRegion: a region with its nodes, or a nil pointer
Region(nodes) == [nil |-> FALSE, nodes |-> nodes]
NilRegion     == [nil |-> TRUE, nodes |-> <<>>]

\* ACLDERPMap.Regions as decoded from a response: a map from region id to a
\* region, each a list of nodes; a region or a node may be nil
ResponseMaps ==
    UNION {[D -> {NilRegion} \cup {Region(nodes) :
                                        nodes \in SeqsUpTo(NodeNames \cup {NilPtr}, MaxNodes)}] :
              D \in SUBSET RegionIDs}

\* tsMap.Regions[rID] = region, for the regions of the plan in order: a later
\* region with the same region_id replaces an earlier one
RECURSIVE resourceModelToDERPMap(_)
resourceModelToDERPMap(regions) ==
    IF regions = <<>> THEN <<>>
    ELSE LET n    == Len(regions)
             rest == resourceModelToDERPMap(SubSeq(regions, 1, n - 1))
             r    == regions[n]
         IN  [id \in DOMAIN rest \cup {r.region_id} |->
                 IF id = r.region_id THEN Region(r.nodes) ELSE rest[id]]

\* sort.Ints over the keys of the map
RECURSIVE SortInts(_)
SortInts(S) ==
    IF S = {} THEN <<>>
    ELSE LET m == CHOOSE x \in S : \A y \in S : x <= y
         IN  <<m>> \o SortInts(S \ {m})

\* the nodes that are not nil, in their order
RECURSIVE NonNil(_)
NonNil(nodes) ==
    IF nodes = <<>> THEN <<>>
    ELSE IF nodes[1] = NilPtr THEN NonNil(Tail(nodes))
    ELSE <<nodes[1]>> \o NonNil(Tail(nodes))

\* insert a name before the first one it is less than
RECURSIVE InsertByName(_, _)
InsertByName(n, sorted) ==
    IF sorted = <<>> THEN <<n>>
    ELSE IF Rank(n) < Rank(sorted[1]) THEN <<n>> \o sorted
    ELSE <<sorted[1]>> \o InsertByName(n, Tail(sorted))

\* sort.Slice(nodeRefs, Name less): nodes carry their name alone here, so the
\* order sort.Slice leaves among equal names does not show
RECURSIVE SortByName(_)
SortByName(nodes) ==
    IF nodes = <<>> THEN <<>>
    ELSE InsertByName(nodes[1], SortByName(Tail(nodes)))

\* the region blocks for the region ids in the order given, nil regions skipped
RECURSIVE RegionList(_, _)
RegionList(dm, ids) ==
    IF ids = <<>> THEN <<>>
    ELSE IF dm[ids[1]].nil THEN RegionList(dm, Tail(ids))
    ELSE <<RegionModel(ids[1], SortByName(NonNil(dm[ids[1]].nodes)))>>
             \o RegionList(dm, Tail(ids))

\* the keys of the map in descending order
RECURSIVE SortIntsDescending(_)
SortIntsDescending(S) ==
    IF S = {} THEN <<>>
    ELSE LET m == CHOOSE x \in S : \A y \in S : x >= y
         IN  <<m>> \o SortIntsDescending(S \ {m})

\* faulty variant: the regions are taken in an order other than ascending (Go
\* ranges over a map in no fixed order) and the nodes as the response has them
derpMapToResourceModelUnsorted(dm) ==
    LET Unsorted[i \in 0..Cardinality(DOMAIN dm)] ==
            IF i = 0 THEN <<>>
            ELSE LET id == SortIntsDescending(DOMAIN dm)[i]
                 IN  IF dm[id].nil THEN Unsorted[i - 1]
                     ELSE Unsorted[i - 1] \o <<RegionModel(id, NonNil(dm[id].nodes))>>
    IN  Unsorted[Cardinality(DOMAIN dm)]

\* derpMapToResourceModel: region ids sorted ascending, nil regions skipped,
\* nil nodes dropped, the nodes of each region sorted by name
derpMapToResourceModel(dm) == RegionList(dm, SortInts(DOMAIN dm))

\* a DERPMap conversion that has not started
NoDERPMap == [stage |-> "none"]

----------------------------------------------------------------------------
(* The state machine *)

\* a data source that has not been read: no config taken, no state set
NoData == [config |-> NoConfig, state |-> Absent]

\* the record of a handler invocation: the state (req.State) and plan it was given,
\* the requests it sent, the outcome of the HTTP call (recorded only when a request
\* was sent) and the diagnostics it returned
Invocation(op, prior, plan, o, r, again) ==
    [op |-> op, prior |-> prior, plan |-> plan, sent |-> r.sent,
     outcome |-> IF r.sent = <<>> THEN NoOutcome ELSE o,
     diags |-> r.diags, again |-> again]

NoInvocation ==
    [op |-> "none", prior |-> Absent, plan |-> NoPlan, sent |-> <<>>, outcome |-> NoOutcome,
     diags |-> <<>>, again |-> FALSE]

Init ==
    /\ kind \in Kinds
    /\ state = Absent
    /\ held = Absent
    /\ last = NoInvocation
    /\ fresh = NoBody
    /\ data = NoData
    /\ peer = Absent
    /\ peerOp = "none"
    /\ provider = Configured(BaseConfig)
    /\ derp = NoDERPMap

\* Handlers are synchronous: one is invoked only after the previous one returned.
\* the framework calls Create for an instance that is not in state
Create ==
    /\ last = NoInvocation
    /\ state = Absent
    /\ \E plan \in Plans(kind), o \in Outcomes(kind) :
         LET r == CreateOf(kind, plan, o) IN
           /\ state' = r.state
           /\ last' = Invocation("Create", Absent, plan, o, r, FALSE)
           /\ fresh' = IF r.state # Absent THEN o.body ELSE NoBody
    /\ held' = Absent
    /\ UNCHANGED <<kind, data, peer, peerOp, provider, derp>>

\* the framework calls Read (refresh) for an instance in state
Read ==
    /\ last = NoInvocation
    /\ state # Absent
    /\ \E o \in Outcomes(kind) :
         LET r == ReadOf(kind, state, o) IN
           /\ state' = r.state
           /\ last' = Invocation("Read", state, NoPlan, o, r, FALSE)
    /\ UNCHANGED <<kind, held, fresh, data, peer, peerOp, provider, derp>>

\* the framework calls Update with the prior state and the new plan
Update ==
    /\ last = NoInvocation
    /\ state # Absent
    /\ \E plan \in Plans(kind), o \in Outcomes(kind) :
         LET r == UpdateOf(kind, state, plan, o) IN
           /\ state' = r.state
           /\ last' = Invocation("Update", state, plan, o, r, FALSE)
    /\ fresh' = NoBody
    /\ UNCHANGED <<kind, held, data, peer, peerOp, provider, derp>>

\* the framework calls Delete with the prior state
Delete ==
    /\ last = NoInvocation
    /\ state # Absent
    /\ \E o \in Outcomes(kind) :
         LET r == DeleteOf(kind, state, o) IN
           /\ state' = r.state
           /\ last' = Invocation("Delete", state, NoPlan, o, r, FALSE)
           /\ held' = IF r.state = Absent THEN state ELSE held
    /\ fresh' = NoBody
    /\ UNCHANGED <<kind, data, peer, peerOp, provider, derp>>

\* Delete invoked a second time with the state data of the Delete that removed
\* the instance (the same identity); resp.State starts as that req.State
DeleteAgain ==
    /\ last = NoInvocation
    /\ state = Absent
    /\ held # Absent
    /\ \E o \in Outcomes(kind) :
         LET r == DeleteOf(kind, held, o) IN
           /\ state' = r.state
           /\ last' = Invocation("Delete", held, NoPlan, o, r, TRUE)
           /\ held' = IF r.state = Absent THEN held ELSE Absent
    /\ fresh' = NoBody
    /\ UNCHANGED <<kind, data, peer, peerOp, provider, derp>>

\* the handler has returned: the framework takes resp.State and resp.Diagnostics
\* and is ready for the next call
Return ==
    /\ last # NoInvocation
    /\ last' = NoInvocation
    /\ fresh' = IF last.op = "Create" THEN fresh ELSE NoBody
    /\ data' = NoData
    /\ UNCHANGED <<kind, state, held, peer, peerOp, provider, derp>>

\* the framework calls the data source's Read with its config; resp.State starts
\* empty at every Read.  The data source shares nothing with the resource
\* instance, so it is read while no instance is in state.
DataRead ==
    /\ last = NoInvocation
    /\ state = Absent /\ held = Absent
    /\ \E cfg \in Configs(kind), o \in Outcomes(kind) :
         LET r == DataReadOf(kind, cfg, o) IN
           /\ data' = [config |-> cfg, state |-> r.state]
           /\ last' = Invocation("DataRead", Absent, NoPlan, o, r, FALSE)
    /\ fresh' = NoBody
    /\ UNCHANGED <<kind, state, held, peer, peerOp, provider, derp>>

Next == Create \/ Read \/ Update \/ Delete \/ DeleteAgain \/ DataRead \/ Return

Spec == Init /\ [][Next]_vars

----------------------------------------------------------------------------
(* Two instances of one resource type *)

\* the resource types the pair is drawn from: one collection keyed by a
\* server-assigned id and one keyed by name
PairKinds == {SSH, TagOwner}

InitPair == Init /\ kind \in PairKinds

\* The framework runs the handlers of different instances in separate
\* goroutines.  Each call has its own req and resp; the resource struct they
\* share (httpClient, endpoint) is assigned by Configure only, and no handler
\* takes a lock.  A handler of the second instance therefore starts and
\* returns whatever the first instance is doing.
PeerCreate ==
    /\ peerOp = "none"
    /\ peer = Absent
    /\ peer' \in {CreateOf(kind, plan, o).state : plan \in Plans(kind), o \in Outcomes(kind)}
    /\ peerOp' = "Create"
    /\ UNCHANGED <<kind, state, held, last, fresh, data, provider, derp>>

PeerRead ==
    /\ peerOp = "none"
    /\ peer # Absent
    /\ peer' \in {ReadOf(kind, peer, o).state : o \in Outcomes(kind)}
    /\ peerOp' = "Read"
    /\ UNCHANGED <<kind, state, held, last, fresh, data, provider, derp>>

PeerUpdate ==
    /\ peerOp = "none"
    /\ peer # Absent
    /\ peer' \in {UpdateOf(kind, peer, plan, o).state : plan \in Plans(kind), o \in Outcomes(kind)}
    /\ peerOp' = "Update"
    /\ UNCHANGED <<kind, state, held, last, fresh, data, provider, derp>>

\* faulty variant: the Delete of one instance removes every instance of the
\* resource type from stored state
PeerDeleteRemovingAll ==
    /\ peerOp = "none"
    /\ peer # Absent
    /\ peer' \in {DeleteOf(kind, peer, o).state : o \in Outcomes(kind)}
    /\ state' = IF peer' = Absent THEN Absent ELSE state
    /\ peerOp' = "Delete"
    /\ UNCHANGED <<kind, held, last, fresh, data, provider, derp>>

PeerDelete ==
    /\ peerOp = "none"
    /\ peer # Absent
    /\ peer' \in {DeleteOf(kind, peer, o).state : o \in Outcomes(kind)}
    /\ peerOp' = "Delete"
    /\ UNCHANGED <<kind, state, held, last, fresh, data, provider, derp>>

PeerReturn ==
    /\ peerOp # "none"
    /\ peerOp' = "none"
    /\ UNCHANGED <<kind, state, held, last, fresh, data, peer, provider, derp>>

NextPair ==
    \/ Create \/ Read \/ Update \/ Delete \/ Return
    \/ PeerCreate \/ PeerRead \/ PeerUpdate \/ PeerDelete \/ PeerReturn

SpecPair == InitPair /\ [][NextPair]_vars

----------------------------------------------------------------------------
(* Configuring the provider *)

\* the framework has parsed a provider block; no resource exists yet
InitProvider ==
    /\ kind \in Kinds
    /\ state = Absent /\ held = Absent /\ last = NoInvocation /\ fresh = NoBody
    /\ data = NoData /\ peer = Absent /\ peerOp = "none"
    /\ provider \in {Unconfigured(c) : c \in ProviderModels}
    /\ derp = NoDERPMap

\* the framework calls Configure with the parsed config
Configure ==
    /\ ~provider.configured
    /\ provider' = Configured(provider.config)
    /\ UNCHANGED <<kind, state, held, last, fresh, data, peer, peerOp, derp>>

NextProvider == Configure

SpecProvider == InitProvider /\ [][NextProvider]_vars

----------------------------------------------------------------------------
(* The typed DERPMap from plan to request and from response to state *)

\* Create and Update of the typed DERPMap have a plan to convert; Create, Read
\* and Update alike have a decoded response to store
InitDERPMap ==
    /\ kind = DERPMap
    /\ state = Absent /\ held = Absent /\ last = NoInvocation /\ fresh = NoBody
    /\ data = NoData /\ peer = Absent /\ peerOp = "none"
    /\ provider = Configured(BaseConfig)
    /\ derp \in {[stage |-> "planned", op |-> op, plan |-> p] :
                     op \in {"Create", "Update"}, p \in PlanRegions}
               \cup {[stage |-> "answered", op |-> op, plan |-> <<>>, dm |-> dm] :
                     op \in {"Create", "Read", "Update"}, dm \in ResponseMaps}

\* Create / Update: newDM := resourceModelToDERPMap(plan) is sent, and the
\* service answers with the map it took
SendDERPMap ==
    /\ derp.stage = "planned"
    /\ derp' = [stage |-> "answered", op |-> derp.op, plan |-> derp.plan,
                dm |-> resourceModelToDERPMap(derp.plan)]
    /\ UNCHANGED <<kind, state, held, last, fresh, data, peer, peerOp, provider>>

\* Create / Read / Update answered 2xx: final := derpMapToResourceModel(created)
\* is the state set
StoreDERPMap ==
    /\ derp.stage = "answered"
    /\ derp' = [stage |-> "stored", op |-> derp.op, plan |-> derp.plan, dm |-> derp.dm,
                regions |-> derpMapToResourceModel(derp.dm)]
    /\ UNCHANGED <<kind, state, held, last, fresh, data, peer, peerOp, provider>>

NextDERPMap == SendDERPMap \/ StoreDERPMap

SpecDERPMap == InitDERPMap /\ [][NextDERPMap]_vars

----------------------------------------------------------------------------
(* Vocabulary of the properties *)

\* the resource types whose helpers return *NotFoundError
TypedNotFoundKinds == Kinds \ {DERPMap}

Invoked(op) == last.op = op
RequestSent == last.sent # <<>>

\* the request was answered: a response with a status arrived and its body was read
Answered == last.outcome.t = "http" /\ last.outcome.body.form # "unreadable"
AnsweredWith(code) == Answered /\ last.outcome.status = code

\* no response was produced: client.Do failed (connection error, context
\* cancelled), or the body of the response could not be read to its end
TransportFailed ==
    \/ last.outcome.t = "neterr"
    \/ last.outcome.t = "http" /\ last.outcome.body.form = "unreadable"

NoErrorDiag == ~HasError(last.diags)
Removed     == state = Absent
Untouched   == state = last.prior

----------------------------------------------------------------------------
(* Not-found as removal *)

\* C1: for every resource type other than the typed DERPMap, when the GET of a
\* Read is answered 404 the instance is removed from stored state and no error
\* diagnostic is added.
C1_ReadNotFoundRemoves ==
    (kind \in TypedNotFoundKinds /\ Invoked("Read") /\ AnsweredWith(404))
        => (Removed /\ NoErrorDiag)

C1_Witness ==
    /\ kind = ACL /\ Invoked("Read") /\ AnsweredWith(404)
    /\ last.prior.present /\ last.prior.id \in Ids
    /\ Len(last.sent) = 1 /\ last.sent[1].method = "GET"
    /\ Removed /\ NoErrorDiag

\* C2: for every resource type other than the typed DERPMap, when the PUT of an
\* Update is answered 404 the instance is removed from stored state and no error
\* diagnostic is added.
C2_UpdateNotFoundRemoves ==
    (kind \in TypedNotFoundKinds /\ Invoked("Update") /\ AnsweredWith(404))
        => (Removed /\ NoErrorDiag)

C2_Witness ==
    /\ kind = AutoApprovers /\ Invoked("Update") /\ AnsweredWith(404)
    /\ last.prior.present
    /\ Len(last.sent) = 1 /\ last.sent[1].method = "PUT"
    /\ Removed /\ NoErrorDiag

\* C3: Delete is idempotent.  For every resource type other than the typed
\* DERPMap, a Delete whose request is answered with a status below 300 or with
\* 404 removes the instance with no error diagnostic; so does a second Delete on
\* the same identity.
C3_DeleteIdempotent ==
    (/\ kind \in TypedNotFoundKinds /\ Invoked("Delete")
     /\ Answered /\ (last.outcome.status < 300 \/ last.outcome.status = 404))
        => (Removed /\ NoErrorDiag)

C3_Witness ==
    /\ kind \in TypedNotFoundKinds /\ Invoked("Delete") /\ last.again
    /\ AnsweredWith(404)
    /\ last.prior.present
    /\ Removed /\ NoErrorDiag

\* C4: the typed DERPMap resource applies not-found-as-removal too: when
\* /derpmap answers 404, Read, Update and Delete remove the resource from stored
\* state and add no error diagnostic.
C4_DERPMapNotFoundRemoves ==
    (kind = DERPMap /\ last.op \in {"Read", "Update", "Delete"} /\ AnsweredWith(404))
        => (Removed /\ NoErrorDiag)

----------------------------------------------------------------------------
(* Failures leave the stored state alone *)

\* C5: for every resource type and each of Read, Update and Delete, an answer
\* with a status >= 300 other than 404 adds an error diagnostic carrying the
\* status code and the response body, and the stored state stays what it was
\* (a failed Delete leaves the instance present).
C5_RemoteFailureKeepsState ==
    (/\ last.op \in {"Read", "Update", "Delete"}
     /\ Answered /\ last.outcome.status >= 300 /\ last.outcome.status # 404)
        => /\ Untouched /\ state.present
           /\ Len(last.diags) = 1
           /\ last.diags[1].severity = "error"
           /\ last.diags[1].detail.status = last.outcome.status
           /\ last.diags[1].detail.text = last.outcome.body.text

C5_Witness ==
    /\ Invoked("Delete") /\ AnsweredWith(500)
    /\ state.present /\ Untouched
    /\ HasError(last.diags)

\* C6: for every resource type, a Create answered with any status >= 300, 404
\* included, adds an error diagnostic and writes no state: the instance stays
\* absent.
C6_CreateFailureWritesNothing ==
    (Invoked("Create") /\ Answered /\ last.outcome.status >= 300)
        => (Removed /\ HasError(last.diags))

C6_Witness ==
    /\ Invoked("Create") /\ AnsweredWith(404)
    /\ Removed /\ HasError(last.diags)

\* C7: for every resource type and every operation, a transport-level failure
\* of the call adds an error diagnostic and leaves the stored state what it
\* was; it is never taken for not-found (the instance is never removed).
C7_TransportFailureKeepsState ==
    (RequestSent /\ TransportFailed) => (Untouched /\ HasError(last.diags))

C7_Witness ==
    /\ Invoked("Read") /\ last.outcome = NetErr
    /\ state.present /\ Untouched /\ HasError(last.diags)

----------------------------------------------------------------------------
(* NodeAttr: exactly one of attr and app_json *)

\* the plan activates both exclusive groups or neither
BothOrNeither(plan) == hasAttr(plan) = hasApp(plan)

\* app_json texts that are a well-formed JSON object
WellFormedObjectTexts == {AppObjText, AppSpacedText, "{}"}

\* C8: for nodeattr Create and Update, a plan that populates both exclusive
\* groups or neither is rejected with a single validation error naming both
\* fields; no request is sent and the stored state is unchanged.
C8_ExclusivityRejected ==
    (kind = NodeAttr /\ last.op \in {"Create", "Update"} /\ BothOrNeither(last.plan))
        => /\ ~RequestSent
           /\ last.diags = <<ExactlyOneDiag>>
           /\ Untouched

\* C9: for nodeattr Create and Update, when app_json is the active group and
\* its value is not a well-formed JSON object, the operation fails with a
\* validation error before any request is sent, and the stored state is
\* unchanged.
C9_MalformedAppRejected ==
    (/\ kind = NodeAttr /\ last.op \in {"Create", "Update"}
     /\ ~hasAttr(last.plan) /\ hasApp(last.plan)
     /\ last.plan.app \notin WellFormedObjectTexts)
        => /\ ~RequestSent
           /\ HasError(last.diags)
           /\ Untouched

\* C10: for nodeattr, the grant sent by every Create and Update request carries
\* exactly one of attr and app (so after a switch of the active group the
\* fields of the previously active group are absent).
C10_GrantCarriesExactlyOne ==
    (kind = NodeAttr /\ last.op \in {"Create", "Update"} /\ RequestSent)
        => ((last.sent[1].payload.attr # Missing) # (last.sent[1].payload.app # Missing))

----------------------------------------------------------------------------
(* NodeAttr: the target that is sent *)

\* the plan passed the exactly-one check with this group active
AppActive(plan)  == hasApp(plan) /\ ~hasAttr(plan)
AttrActive(plan) == hasAttr(plan) /\ ~hasApp(plan)

\* C11: for nodeattr Create and Update alike, whenever app_json is the active
\* group the target sent is exactly ["*"] whatever the plan's target is, and
\* whenever attr is the active group the target sent is the plan's target (no
\* target is invented when the plan has none).
C11_TargetForcedForApp ==
    (kind = NodeAttr /\ last.op \in {"Create", "Update"} /\ RequestSent)
        => /\ AppActive(last.plan) => last.sent[1].payload.val = Star
           /\ (AttrActive(last.plan) /\ last.plan.val \in Vals)
                 => last.sent[1].payload.val = last.plan.val
           /\ (AttrActive(last.plan) /\ last.plan.val = Null)
                 => last.sent[1].payload.val \notin Vals \cup {Star}

C11_Witness ==
    /\ kind = NodeAttr /\ Invoked("Update") /\ RequestSent
    /\ AppActive(last.plan) /\ last.plan.val \in Vals
    /\ last.sent[1].payload.val = Star
    /\ last.sent[1].payload.app = AppMap

----------------------------------------------------------------------------
(* Identity *)

\* C12: for the ID-collection kinds (ACL, SSH, nodeattr), the id carried in the
\* body of every Update request is the id held in stored state before the
\* Update, whatever the plan contains.
C12_UpdateSendsStoredID ==
    (kind \in IDKinds /\ Invoked("Update") /\ RequestSent)
        => /\ Len(last.sent) = 1
           /\ last.sent[1].payload.id = last.prior.id
           /\ last.sent[1].payload.id \in Ids

C12_Witness ==
    /\ kind = SSH /\ Invoked("Update") /\ RequestSent
    /\ last.prior.id = "id1"
    /\ last.sent[1].payload.id = "id1"
    /\ last.plan.val # last.prior.val

\* the name of the remote entity a request of a name-keyed kind addresses
TargetName(req) ==
    IF req.url = "/postures/default" THEN "default" ELSE req.payload.name

\* C13: for the name-keyed kinds (group, host, tag owner, posture), the name an
\* Update sends to the remote service is the instance's stored identity even
\* when the plan's name differs from it, and the Update does not change the
\* identity held in stored state.
C13_UpdateKeepsStoredName ==
    (kind \in NamedKinds /\ Invoked("Update") /\ RequestSent)
        => /\ TargetName(last.sent[1]) = last.prior.name
           /\ state.present => state.name = last.prior.name

\* the operation sent its request, was answered 2xx and returned no error
Succeeded == RequestSent /\ Answered /\ last.outcome.status < 300 /\ NoErrorDiag

\* C14: for the ID-collection kinds, identity is immutable once assigned by
\* Create: after a successful Read or Update of a present instance the id in
\* stored state is still the id it held before, for every response body the
\* remote service may return.
C14_IDImmutable ==
    (kind \in IDKinds /\ last.op \in {"Read", "Update"} /\ Succeeded)
        => (state.present /\ state.id = last.prior.id)

\* C15: for the ID-collection kinds, every stored state written by a successful
\* Create, Read or Update holds a non-empty id.
C15_StoredIDNonEmpty ==
    (kind \in IDKinds /\ last.op \in {"Create", "Read", "Update"} /\ Succeeded)
        => (state.present /\ state.id # "")

----------------------------------------------------------------------------
(* Lifecycle *)

\* C16: stored state goes from Absent to Present only through a successful
\* Create, and from Present to Absent only when a Delete succeeds or a Read,
\* Update or Delete is answered not-found; no other step of any operation
\* removes a present instance.
C16_Lifecycle ==
    /\ (last.op # "none" /\ ~last.prior.present /\ state.present)
          => (Invoked("Create") /\ Succeeded)
    /\ (last.op # "none" /\ last.prior.present /\ ~state.present)
          => \/ Invoked("Delete") /\ NoErrorDiag
             \/ last.op \in {"Read", "Update", "Delete"} /\ RequestSent /\ AnsweredWith(404)

----------------------------------------------------------------------------
(* What Create stores *)

\* the app object a stored app_json stands for
StoredApp(st) == IF st.app = Null THEN NilMap ELSE UnmarshalApp(st.app).app

\* the stored id, target/entry and attr are the ones the response carries
\* (a key the response lacks is the empty value)
StoresResponseEntry ==
    /\ state.present
    /\ state.id = Str(last.outcome.body.id)
    /\ state.val = Str(last.outcome.body.val)
    /\ kind = NodeAttr => state.attr = Str(last.outcome.body.attr)

----------------------------------------------------------------------------
(* The remote service is authoritative *)

\* C18: for every resource kind, after each successful Create, Read or Update
\* every non-identity field of stored state equals the value carried by that
\* operation's response body; no field keeps its planned or previously stored
\* value when the response differs from it or omits it.
C18_ObservedReplacedWholesale ==
    (/\ last.op \in {"Create", "Read", "Update"} /\ Succeeded
     /\ last.outcome.body.form = "object")
        => (state.present /\ state.val = Str(last.outcome.body.val))

\* a Read issued immediately after a successful Create, with the remote entity
\* unchanged: the GET (if one is sent) is answered with the representation
\* that answered the Create
RoundTripRead ==
    /\ Invoked("Read") /\ fresh # NoBody
    /\ RequestSent =>
         (last.outcome.t = "http" /\ last.outcome.status < 300 /\ last.outcome.body = fresh)

\* C19: round trip.  For every resource kind, when the remote entity is not
\* changed between the two calls, the stored state written by a Read issued
\* immediately after a successful Create equals the stored state written by
\* that Create.
C19_RoundTrip == RoundTripRead => state = last.prior

----------------------------------------------------------------------------
(* Posture: the default posture and the named ones *)

\* C20: for a posture whose name is "default", Create and Update each send a
\* PUT to the fixed path /postures/default whose body holds only the rule list
\* under the key defaultSourcePosture and no name; for any other name Create
\* POSTs and Update PUTs to /postures with a body {name, rules}.
C20_PostureRequestShape ==
    (kind = Posture /\ last.op \in {"Create", "Update"} /\ RequestSent)
        => /\ Len(last.sent) = 1
           /\ IF last.plan.name = "default"
              THEN /\ last.sent[1].method = "PUT"
                   /\ last.sent[1].url = "/postures/default"
                   /\ last.sent[1].payload.wrap = "defaultSourcePosture"
                   /\ last.sent[1].payload.val = last.plan.val
                   /\ last.sent[1].payload.name = Missing
                   /\ last.sent[1].payload.id = Missing
              ELSE /\ last.sent[1].method = (IF Invoked("Create") THEN "POST" ELSE "PUT")
                   /\ last.sent[1].url = "/postures"
                   /\ last.sent[1].payload.wrap = ""
                   /\ last.sent[1].payload.name = last.plan.name
                   /\ last.sent[1].payload.val = last.plan.val

C20_Witness ==
    /\ kind = Posture /\ Invoked("Update") /\ RequestSent
    /\ last.prior.name = "default" /\ last.plan.name = "default"
    /\ last.plan.val # last.prior.val
    /\ last.sent[1].url = "/postures/default"
    /\ last.sent[1].payload.name = Missing

----------------------------------------------------------------------------
(* Paths, attempts and classification (C21..C30) *)

\* C21: for a posture instance whose stored identity is "default", every
\* request of Read, Update and Delete goes to /postures/default, and for an
\* instance whose stored identity is another non-empty name no request goes to
\* /postures/default, whatever the plan of the Update contains.
C21_DefaultPathByStoredIdentity ==
    (kind = Posture /\ last.op \in {"Read", "Update", "Delete"} /\ RequestSent)
        => /\ last.prior.name = "default" => last.sent[1].url = "/postures/default"
           /\ last.prior.name \notin {"", "default"}
                  => last.sent[1].url # "/postures/default"

\* C22: every invocation of Create, Read, Update or Delete of any resource kind,
\* and of Read of any data source, makes at most one network attempt: no
\* outcome (failure, not-found, success) makes the handler send a second request.
C22_AtMostOneAttempt ==
    last.op \in {"Create", "Read", "Update", "Delete", "DataRead"} => Len(last.sent) <= 1

\* a Create of a posture whose one request was answered with a failure
C22_Witness ==
    /\ kind = Posture /\ Invoked("Create")
    /\ Len(last.sent) = 1 /\ AnsweredWith(500) /\ HasError(last.diags)

\* what the helper of the invocation returned for the response it received
HelperResult ==
    IF last.op = "DataRead" THEN DataHelperOf(kind, last.outcome)
    ELSE RequestHelperOf(kind, last.outcome)

\* C23: the request helpers classify every HTTP response by its status code:
\* 404 is the not-found outcome, an error recognised by IsNotFound; any other
\* status >= 300 is a failure carrying the status code and the response body;
\* every remaining status is success with the response bytes.
C23_ClassifiedByStatus ==
    (RequestSent /\ Answered)
        => LET r == HelperResult
               s == last.outcome.status
           IN  /\ s = 404 => isNotFound(r.err)
               /\ (s >= 300 /\ s # 404)
                      => /\ r.err # NoErr /\ ~isNotFound(r.err)
                         /\ r.err.status = s /\ r.err.text = last.outcome.body.text
               /\ s < 300 => r.err = NoErr /\ r.body = last.outcome.body

\* the one path and the constant id of each singleton kind
SingletonPath(k) ==
    CASE k = Settings -> "/settings" [] k = AutoApprovers -> "/autoapprovers"
      [] k = DERPMap -> "/derpmap"
SingletonLabel(k) ==
    CASE k = Settings -> "settings" [] k = AutoApprovers -> "autoapprovers"
      [] k = DERPMap -> "derpmap"

\* C24: for the singleton kinds (settings, auto-approvers, DERPMap), Create,
\* Read, Update and Delete all address the same fixed path, whatever is stored,
\* and the id of every stored state written by a successful Create, Read or
\* Update is the constant label of the kind.
C24_SingletonFixedPath ==
    (kind \in SingletonKinds /\ last.op \in {"Create", "Read", "Update", "Delete"})
        => /\ RequestSent => last.sent[1].url = SingletonPath(kind)
           /\ (last.op # "Delete" /\ Succeeded /\ state.present)
                  => state.id = SingletonLabel(kind)

\* a Read of the settings object that succeeded and stored a changed value
C24_Witness ==
    /\ kind = Settings /\ Invoked("Read") /\ Succeeded
    /\ last.sent[1].url = "/settings"
    /\ state.present /\ state.id = "settings" /\ state.val # last.prior.val

\* C25: for the name-keyed kinds (group, host, tag owner, posture), in every
\* stored state written by a successful Create, Read or Update the attribute id
\* equals the attribute name, for every response body the service may return.
C25_IDEqualsName ==
    (kind \in NamedKinds /\ last.op \in {"Create", "Read", "Update"}
        /\ Succeeded /\ state.present)
        => state.id = state.name

\* the collection root and the key of the Update body of each ID-collection kind
CollectionRoot(k) ==
    CASE k = ACL -> "/acls" [] k = SSH -> "/ssh" [] k = NodeAttr -> "/nodeattrs"
PayloadKey(k) ==
    CASE k = ACL -> "entry" [] k = SSH -> "rule" [] k = NodeAttr -> "grant"

\* C26: for the ID-collection kinds (ACL, SSH, nodeattr), Create sends POST to
\* the collection root with no id; Read sends GET to root/id with the stored
\* id; Update sends PUT to the root with a body of the stored id and the payload
\* under the key of the kind; Delete sends DELETE to the root with a body that
\* holds only the stored id.
C26_IDCollectionRequests ==
    (kind \in IDKinds /\ last.op \in {"Create", "Read", "Update", "Delete"} /\ RequestSent)
        => LET req == last.sent[1] IN
           /\ last.op = "Create"
                  => /\ req.method = "POST" /\ req.url = CollectionRoot(kind)
                     /\ ~req.payload.nil /\ req.payload.id = Missing
                     /\ req.payload.wrap = ""
           /\ last.op = "Read"
                  => /\ req.method = "GET"
                     /\ req.url = CollectionRoot(kind) \o "/" \o last.prior.id
                     /\ req.payload = NilPayload
           /\ last.op = "Update"
                  => /\ req.method = "PUT" /\ req.url = CollectionRoot(kind)
                     /\ req.payload.id = last.prior.id
                     /\ req.payload.wrap = PayloadKey(kind)
                     /\ req.payload.name = Missing
           /\ last.op = "Delete"
                  => /\ req.method = "DELETE" /\ req.url = CollectionRoot(kind)
                     /\ req.payload =
                            Payload(last.prior.id, Missing, Missing, Missing, Missing, "")

\* a Delete of a nodeattr with a stored id that sent its request
C26_Witness ==
    /\ kind = NodeAttr /\ Invoked("Delete") /\ RequestSent
    /\ last.prior.id \in Ids
    /\ last.sent[1].payload.id = last.prior.id

\* a request that asks the service to change an entity
Mutating(req) == req.method \in {"POST", "PUT", "DELETE"}

\* C27: Read never corrects drift.  For every resource kind the only request a
\* Read sends is one GET without a body, so no Read asks the service to change
\* the remote entity, also when the values it returns differ from the stored
\* ones; a request that changes the remote entity is sent only by Create,
\* Update or Delete.
C27_ReadOnlyGets ==
    /\ Invoked("Read")
           => /\ Len(last.sent) <= 1
              /\ \A i \in 1..Len(last.sent) :
                     /\ last.sent[i].method = "GET"
                     /\ last.sent[i].payload = NilPayload
    /\ \A i \in 1..Len(last.sent) :
           Mutating(last.sent[i]) => last.op \in {"Create", "Update", "Delete"}

\* a Read that found the remote value different from the stored one: the
\* stored state took the remote value and the GET was the only request
C27_Witness ==
    /\ kind = SSH /\ Invoked("Read") /\ Succeeded
    /\ state.present /\ state.val # last.prior.val
    /\ Len(last.sent) = 1 /\ last.sent[1].method = "GET"

\* the state the handler of the invocation just recorded computes from the
\* instance's own prior state, its plan and the outcome of its request
AloneState(inv) ==
    CASE inv.op = "Create" -> CreateOf(kind, inv.plan, inv.outcome).state
      [] inv.op = "Read"   -> ReadOf(kind, inv.prior, inv.outcome).state
      [] inv.op = "Update" -> UpdateOf(kind, inv.prior, inv.plan, inv.outcome).state
      [] inv.op = "Delete" -> DeleteOf(kind, inv.prior, inv.outcome).state

SameRequestLine(r) ==
    r.sent # <<>>
        => /\ r.sent[1].method = last.sent[1].method
           /\ r.sent[1].url = last.sent[1].url

\* the stored states that carry the identity of st, whatever else they hold
SameIdentity(st) ==
    {St(st.id, st.name, v, st.attr, st.app) : v \in Vals \cup {st.val}}

\* C30: address resolution is deterministic.  The method and URL an operation
\* requests are a function only of the resource kind, the operation and the
\* instance's identity (the stored identity, for Create the planned name): an
\* invocation of the same operation on the same identity requests the same
\* method and URL for every plan, every other stored value and every response.
C30_AddressDeterministic ==
    RequestSent
        => CASE last.op = "Create" ->
                  \A plan \in {p \in Plans(kind) : p.name = last.plan.name},
                     o \in Outcomes(kind) :
                      SameRequestLine(CreateOf(kind, plan, o))
             [] last.op = "Read" ->
                  \A cur \in SameIdentity(last.prior), o \in Outcomes(kind) :
                      SameRequestLine(ReadOf(kind, cur, o))
             [] last.op = "Update" ->
                  \A cur \in SameIdentity(last.prior), plan \in Plans(kind),
                     o \in Outcomes(kind) :
                      SameRequestLine(UpdateOf(kind, cur, plan, o))
             [] last.op = "Delete" ->
                  \A cur \in SameIdentity(last.prior), o \in Outcomes(kind) :
                      SameRequestLine(DeleteOf(kind, cur, o))
             [] last.op = "DataRead" ->
                  \A o \in Outcomes(kind) :
                      SameRequestLine(DataReadOf(kind, data.config, o))

----------------------------------------------------------------------------
(* Empty identities, data sources, and the outcome of an invocation (C32..C38) *)

\* the identity held in stored state: the name for the name-keyed kinds, the id
\* for the kinds keyed by a server-assigned id
Identity(st) == IF kind \in NamedKinds THEN st.name ELSE st.id

\* C32: for the ACL, SSH, nodeattr and tag-owner resources, a Read, Update or
\* Delete invoked on stored state whose identity is empty removes the instance
\* from stored state, adds no error diagnostic and sends no request.
C32_EmptyIdentityRemoves ==
    (kind \in {ACL, SSH, NodeAttr, TagOwner}
        /\ last.op \in {"Read", "Update", "Delete"}
        /\ last.prior.present /\ Identity(last.prior) = "")
        => Removed /\ NoErrorDiag /\ ~RequestSent

\* an Update of an ACL stored with an empty id removed it without a request
C32_Witness ==
    /\ kind = ACL /\ Invoked("Update")
    /\ last.prior.present /\ last.prior.id = ""
    /\ Removed /\ ~RequestSent /\ last.diags = <<>>

\* C33: when GET /derpmap is answered with status 404, the Read of the typed
\* DERPMap data source returns with no state set and no error diagnostic.
C33_DERPMapDataSourceNotFound ==
    (kind = DERPMap /\ Invoked("DataRead") /\ RequestSent /\ AnsweredWith(404))
        => data.state = Absent /\ NoErrorDiag

\* C34: for the ACL, SSH, nodeattr, group, host, tag-owner, posture, settings
\* and auto-approvers data sources, a Read whose GET is answered 404 sets no
\* state and adds no error diagnostic (at most a warning), and any other
\* status >= 300 adds an error diagnostic and sets no state.
C34_DataSourceNotFoundAndFailure ==
    (kind # DERPMap /\ Invoked("DataRead") /\ RequestSent /\ Answered)
        => /\ last.outcome.status = 404
                  => /\ data.state = Absent /\ NoErrorDiag
                     /\ \A i \in 1..Len(last.diags) : last.diags[i].severity = "warning"
           /\ (last.outcome.status >= 300 /\ last.outcome.status # 404)
                  => data.state = Absent /\ HasError(last.diags)

\* the Read of the ACL data source answered 404: no state, one warning
C34_Witness ==
    /\ kind = ACL /\ Invoked("DataRead") /\ AnsweredWith(404)
    /\ data.state = Absent
    /\ Len(last.diags) = 1 /\ last.diags[1].severity = "warning"

\* C36: for nodeattr, every stored state written by a successful Create, Read
\* or Update has at most one exclusive group populated: it never holds a
\* non-empty attr together with a non-null app_json, for every response body
\* (also one that carries both attr and app).
C36_AtMostOneGroupStored ==
    (kind = NodeAttr /\ last.op \in {"Create", "Read", "Update"}
        /\ Succeeded /\ state.present)
        => ~(state.attr # Zero /\ state.app # Null)

\* a response carrying both attr and app was stored with attr only
C36_Witness ==
    /\ kind = NodeAttr /\ Invoked("Read") /\ Succeeded /\ state.present
    /\ last.outcome.body.attr = "a1" /\ last.outcome.body.app = AppMap
    /\ state.attr = "a1" /\ state.app = Null

\* C37: no remote entity is orphaned by Create: whenever the request of a
\* Create is answered with a 2xx status, Create writes stored state for the
\* entity and returns no error diagnostic.
C37_CreateNeverOrphans ==
    (Invoked("Create") /\ RequestSent
        /\ last.outcome.t = "http" /\ last.outcome.status < 300)
        => state.present /\ NoErrorDiag

\* C38: every invocation of Create, Read, Update or Delete ends in exactly one
\* of three outcomes: stored state written with no error diagnostic, stored
\* state removed with no error diagnostic, or an error diagnostic with stored
\* state left as it was before; none ends with an error and a state change, or
\* with neither an error nor a write or removal.
C38_OneOfThreeOutcomes ==
    last.op \in {"Create", "Read", "Update", "Delete"}
        => /\ HasError(last.diags) => Untouched
           /\ ~HasError(last.diags)
                  => CASE last.op = "Create" -> state.present
                       [] last.op = "Delete" -> Removed
                       [] OTHER -> Removed \/ (state.present /\ Succeeded)

\* an Update that failed kept the stored state; it is one of the three outcomes
C38_Witness ==
    /\ Invoked("Update") /\ RequestSent /\ AnsweredWith(500)
    /\ HasError(last.diags) /\ state = last.prior /\ state.present

----------------------------------------------------------------------------
(* Provider configuration (C31) *)

\* C31: when the ephemeral attribute is omitted the provider's ephemeral mode
\* is true (the documented default), and when it is set the ephemeral mode
\* equals the configured value.
C31_EphemeralDefaultsTrue ==
    provider.configured
        => provider.ephemeralMode =
               (IF provider.config.ephemeral = Null THEN TRUE
                ELSE provider.config.ephemeral = "true")

----------------------------------------------------------------------------
(* The order of the stored DERPMap (C35) *)

\* C35: for the typed DERPMap resource, in every stored state written by a
\* successful Create, Read or Update the regions are in strictly ascending
\* region_id order, no region_id repeated, and within each region the nodes
\* are in non-decreasing name order, whatever order the plan or the response
\* used.
C35_RegionsAndNodesSorted ==
    derp.stage = "stored"
        => LET rs == derp.regions IN
           /\ \A i, j \in 1..Len(rs) : i < j => rs[i].region_id < rs[j].region_id
           /\ \A k \in 1..Len(rs) :
                  \A i, j \in 1..Len(rs[k].nodes) :
                      i < j => Rank(rs[k].nodes[i]) <= Rank(rs[k].nodes[j])

\* a plan that lists region 2 before region 1 and the nodes of a region as
\* b, a was stored as regions 1, 2 with the nodes a, b
C35_Witness ==
    /\ derp.stage = "stored" /\ derp.op = "Update"
    /\ Len(derp.plan) = 2
    /\ derp.plan[1].region_id = 2 /\ derp.plan[2].region_id = 1
    /\ derp.plan[1].nodes = <<"b", "a">>
    /\ Len(derp.regions) = 2
    /\ derp.regions[1].region_id = 1 /\ derp.regions[2].nodes = <<"a", "b">>

====
